---- MODULE Spec2Model ----
(***************************************************************************)
(* Model of pytest_typing_runner/expectations.py: the notice data model    *)
(* (ProgramNotice, LineNotices, FileNotices, ProgramNotices) and the       *)
(* operations that build expected notices; and of builder.py: the          *)
(* ScenarioFile and ScenarioBuilder that make the expectations of a run.   *)
(*                                                                         *)
(* Python values are modelled as follows:                                  *)
(*   str             a TLA+ string (\o, Len and SubSeq work on strings)     *)
(*   X | None        a sequence: <<>> is None, <<x>> is the value x         *)
(*   dict            a function whose DOMAIN is the set of keys            *)
(*   list            a sequence                                            *)
(*   dataclass       a record                                              *)
(*   str | int       [kind |-> "int", line_number |-> n] or                *)
(*                   [kind |-> "str", name |-> s]                          *)
(*   raise E         a result record whose field raised is the name of E   *)
(***************************************************************************)
EXTENDS FiniteSets, Integers, Sequences, TLC

VARIABLES fn, last, calls, program, query, heap, known_files, scenario, history

vars == <<fn, last, calls, program, query, heap, known_files, scenario, history>>

(***************************************************************************)
(* Bounds of the model.                                                    *)
(***************************************************************************)
MaxNotices == 2

MaxMsgLines == 2

(***************************************************************************)
(* Python values.                                                          *)
(***************************************************************************)
None == <<>>

Some(v) == <<v>>

EmptyDict == [k \in {} |-> k]

\* {**d, key: value}
DictSet(d, key, value) ==
    [k \in DOMAIN d \cup {key} |-> IF k = key THEN value ELSE d[k]]

IntArg(n) == [kind |-> "int", line_number |-> n]

StrArg(s) == [kind |-> "str", name |-> s]

isinstance_int(name_or_line) == name_or_line.kind = "int"

NoError == ""

\* str.split("\n"), scanning the characters of msg from position i; cur is the
\* piece collected so far
RECURSIVE split_from(_, _, _)
split_from(msg, i, cur) ==
    IF i > Len(msg) THEN <<cur>>
    ELSE IF SubSeq(msg, i, i) = "\n"
         THEN <<cur>> \o split_from(msg, i + 1, "")
         ELSE split_from(msg, i + 1, cur \o SubSeq(msg, i, i))

\* str.split("\n") as a bug would have it: empty pieces are dropped
split_nonempty(msg) ==
    SelectSeq(split_from(msg, 1, ""), LAMBDA piece : piece # "")

split_newline(msg) == split_from(msg, 1, "")

\* the position of the character c in the string s, 0 when it is not there
index_in(s, c) ==
    IF \E i \in 1..Len(s) : SubSeq(s, i, i) = c
    THEN CHOOSE i \in 1..Len(s) : SubSeq(s, i, i) = c
    ELSE 0

\* ord(c), for the characters that notices and paths are written with
ord(c) ==
    CASE c = "\n" -> 10
      [] c = " " -> 32
      [] c = "\"" -> 34
      [] index_in("-./0123456789:", c) > 0 -> 44 + index_in("-./0123456789:", c)
      [] c = "=" -> 61
      [] index_in("ABCDEFGHIJKLMNOPQRSTUVWXYZ", c) > 0 ->
           64 + index_in("ABCDEFGHIJKLMNOPQRSTUVWXYZ", c)
      [] c = "_" -> 95
      [] index_in("abcdefghijklmnopqrstuvwxyz", c) > 0 ->
           96 + index_in("abcdefghijklmnopqrstuvwxyz", c)

\* a < b on str, from position i on: the first differing character decides,
\* and a proper prefix is less
RECURSIVE str_lt_from(_, _, _)
str_lt_from(a, b, i) ==
    IF i > Len(a) THEN i <= Len(b)
    ELSE IF i > Len(b) THEN FALSE
    ELSE IF SubSeq(a, i, i) = SubSeq(b, i, i) THEN str_lt_from(a, b, i + 1)
    ELSE ord(SubSeq(a, i, i)) < ord(SubSeq(b, i, i))

str_lt(a, b) == str_lt_from(a, b, 1)

\* str(n) for an int n >= 0
RECURSIVE str_int(_)
str_int(n) ==
    IF n < 10 THEN SubSeq("0123456789", n + 1, n + 1)
    ELSE str_int(n \div 10) \o SubSeq("0123456789", (n % 10) + 1, (n % 10) + 1)

(***************************************************************************)
(* pathlib.Path: a path is the str it was made from (absolute, normalised). *)
(***************************************************************************)
\* the names between the slashes of p, from position i on; cur is the name
\* collected so far
RECURSIVE names_from(_, _, _)
names_from(p, i, cur) ==
    IF i > Len(p) THEN (IF cur = "" THEN <<>> ELSE <<cur>>)
    ELSE IF SubSeq(p, i, i) = "/"
         THEN (IF cur = "" THEN <<>> ELSE <<cur>>) \o names_from(p, i + 1, "")
         ELSE names_from(p, i + 1, cur \o SubSeq(p, i, i))

\* Path(p).parts, for an absolute p: the root "/" and then the names
path_parts(p) == <<"/">> \o names_from(p, 1, "")

\* a < b on the parts of two paths (a < b on tuples of str)
RECURSIVE parts_lt(_, _)
parts_lt(a, b) ==
    IF a = <<>> THEN b # <<>>
    ELSE IF b = <<>> THEN FALSE
    ELSE IF Head(a) = Head(b) THEN parts_lt(Tail(a), Tail(b))
    ELSE str_lt(Head(a), Head(b))

\* Path.__lt__
path_lt(a, b) == parts_lt(path_parts(a), path_parts(b))

\* Path.is_relative_to: the parts of root_dir start the parts of location
is_relative_to(location, root_dir) ==
    LET parts == path_parts(location)
        root == path_parts(root_dir)
    IN  /\ Len(root) <= Len(parts)
        /\ SubSeq(parts, 1, Len(root)) = root

RECURSIVE join_slash(_)
join_slash(names) ==
    IF names = <<>> THEN "."
    ELSE IF Len(names) = 1 THEN names[1]
    ELSE names[1] \o "/" \o join_slash(Tail(names))

\* str(location.relative_to(root_dir)), for a location under root_dir
relative_to(location, root_dir) ==
    LET parts == path_parts(location)
        root == path_parts(root_dir)
    IN  join_slash(SubSeq(parts, Len(root) + 1, Len(parts)))

(***************************************************************************)
(* ProgramNotice                                                           *)
(***************************************************************************)
ProgramNotice(location, line_number, col, severity, tag, msg) ==
    [location |-> location, line_number |-> line_number, col |-> col,
     severity |-> severity, tag |-> tag, msg |-> msg]

\* dataclasses.replace(self, **kwargs): kwargs is a record holding some of the
\* fields of ProgramNoticeCloneKwargs
clone(self, kwargs) ==
    [f \in DOMAIN self |-> IF f \in DOMAIN kwargs THEN kwargs[f] ELSE self[f]]

\* list(self.for_compare()): one notice per line of msg
for_compare(self) ==
    LET lines == split_newline(self.msg)
    IN  [i \in 1..Len(lines) |-> clone(self, [msg |-> lines[i]])]

display(self) ==
    LET col == IF self.col = None THEN "" ELSE " col=" \o str_int(self.col[1])
        tag == IF self.tag = None THEN "" ELSE " tag=" \o self.tag[1] \o " "
    IN  col \o " severity=" \o self.severity \o " " \o tag \o ":: " \o self.msg

\* ProgramNotice.__lt__
ProgramNotice_lt(self, other) == str_lt(display(self), display(other))

\* sorted(notices): what is left of notices is put, one notice after the
\* other, before the first notice of done it is less than (a stable sort)
RECURSIVE sorted_insert(_, _)
sorted_insert(done, notice) ==
    IF done = <<>> THEN <<notice>>
    ELSE IF ProgramNotice_lt(notice, Head(done)) THEN <<notice>> \o done
    ELSE <<Head(done)>> \o sorted_insert(Tail(done), notice)

RECURSIVE sorted_onto(_, _)
sorted_onto(done, notices) ==
    IF notices = <<>> THEN done
    ELSE sorted_onto(sorted_insert(done, Head(notices)), Tail(notices))

\* the notices in stored order
unsorted(notices) == notices

sorted(notices) == sorted_onto(<<>>, notices)

matches_one_sided(self, other) ==
    LET same == /\ self.location = other.location
                /\ self.line_number = other.line_number
                /\ self.severity = other.severity
                /\ self.tag = other.tag
                /\ self.msg = other.msg
    IN  IF ~same THEN FALSE
        ELSE IF self.col # None THEN self.col = other.col
        ELSE TRUE

\* matches as a bug would have it: the columns are compared only when both
\* are given, and two notices without column never match
matches_both_cols(self, other) ==
    LET same == /\ self.location = other.location
                /\ self.line_number = other.line_number
                /\ self.severity = other.severity
                /\ self.tag = other.tag
                /\ self.msg = other.msg
    IN  IF ~same THEN FALSE
        ELSE self.col # None /\ other.col # None /\ self.col = other.col

matches(self, other) ==
    LET same == /\ self.location = other.location
                /\ self.line_number = other.line_number
                /\ self.severity = other.severity
                /\ self.tag = other.tag
                /\ self.msg = other.msg
    IN  IF ~same THEN FALSE
        ELSE IF self.col # None \/ other.col # None THEN self.col = other.col
        ELSE TRUE

(***************************************************************************)
(* Caller-supplied callables.  A ProgramNoticeChooser and a                *)
(* ProgramNoticeModify are closures in the program; here they are records  *)
(* naming the closure and holding what it captured.                        *)
(***************************************************************************)
\* lambda original: original.matches(existing)
MatchesChooser(existing) == [kind |-> "matches", existing |-> existing]

\* lambda notice: notice.severity == severity
SeverityChooser(severity) == [kind |-> "severity", severity |-> severity]

\* lambda notice: True
AnyChooser == [kind |-> "any"]

chooser_call(chooser, n) ==
    CASE chooser.kind = "matches" -> matches(n, chooser.existing)
      [] chooser.kind = "severity" -> n.severity = chooser.severity
      [] chooser.kind = "any" -> TRUE

\* lambda original: original.clone(**kwargs)
CloneModify(kwargs) == [kind |-> "clone", kwargs |-> kwargs]

\* lambda original: original.clone(msg=f"{original.msg}\n{text}")
AppendModify(text) == [kind |-> "append", text |-> text]

modify_call(modify, original) ==
    CASE modify.kind = "clone" -> clone(original, modify.kwargs)
      [] modify.kind = "append" ->
           clone(original, [msg |-> original.msg \o "\n" \o modify.text])

(***************************************************************************)
(* LineNotices                                                             *)
(***************************************************************************)
LineNotices(location, line_number) ==
    [location |-> location, line_number |-> line_number, notices |-> <<>>]

LineNotices_has_notices(self) == self.notices # <<>>

\* bool(line_notices): the class defines __iter__ but neither __bool__ nor
\* __len__, so every instance is truthy
LineNotices_bool(self) == TRUE

LineNotices_add_first(self, notice) ==
    [self EXCEPT !.notices = <<notice>> \o @]

LineNotices_add(self, notice) ==
    [self EXCEPT !.notices = Append(@, notice)]

\* the loop of LineNotices.replace without the first_only test
RECURSIVE replace_loop_all(_, _, _, _, _)
replace_loop_all(notices, chooser, replaced, first_only, matched) ==
    IF notices = <<>> THEN <<>>
    ELSE LET n == Head(notices) IN
         IF chooser_call(chooser, n)
         THEN <<replaced>> \o replace_loop_all(Tail(notices), chooser, replaced, first_only, TRUE)
         ELSE <<n>> \o replace_loop_all(Tail(notices), chooser, replaced, first_only, matched)

\* the loop of LineNotices.replace over the notices that are left
RECURSIVE replace_loop(_, _, _, _, _)
replace_loop(notices, chooser, replaced, first_only, matched) ==
    IF notices = <<>> THEN <<>>
    ELSE LET n == Head(notices) IN
         IF chooser_call(chooser, n) /\ (~first_only \/ ~matched)
         THEN <<replaced>> \o replace_loop(Tail(notices), chooser, replaced, first_only, TRUE)
         ELSE <<n>> \o replace_loop(Tail(notices), chooser, replaced, first_only, matched)

LineNotices_replace(self, chooser, replaced, first_only) ==
    [self EXCEPT !.notices = replace_loop(@, chooser, replaced, first_only, FALSE)]

LineNotices_remove(self, chooser) ==
    [self EXCEPT !.notices = SelectSeq(@, LAMBDA n : ~chooser_call(chooser, n))]

(***************************************************************************)
(* FileNotices                                                             *)
(***************************************************************************)
FileNotices(location) ==
    [location |-> location, by_line_number |-> EmptyDict,
     name_to_line_number |-> EmptyDict]

\* any(notices for notices in self.by_line_number.values()): the truth value
\* of each LineNotices object is what any() tests
FileNotices_has_notices(self) ==
    \E line_number \in DOMAIN self.by_line_number :
        LineNotices_bool(self.by_line_number[line_number])

\* bool(file_notices): FileNotices defines neither __bool__ nor __len__
FileNotices_bool(self) == TRUE

\* the lines of by_line_number in ascending order (sorted(dict.items()))
RECURSIVE sorted_keys(_)
sorted_keys(keys) ==
    IF keys = {} THEN <<>>
    ELSE LET least == CHOOSE k \in keys : \A other \in keys : k <= other
         IN  <<least>> \o sorted_keys(keys \ {least})

RECURSIVE flatten_lines(_, _)
flatten_lines(self, lines) ==
    IF lines = <<>> THEN <<>>
    ELSE self.by_line_number[Head(lines)].notices \o flatten_lines(self, Tail(lines))

\* list(file_notices): every notice, line by line
FileNotices_iter(self) == flatten_lines(self, sorted_keys(DOMAIN self.by_line_number))

notices_for_line_number(self, line_number) ==
    IF line_number \notin DOMAIN self.by_line_number THEN None
    ELSE Some(self.by_line_number[line_number])

set_line_notices(self, line_number, notices) ==
    [self EXCEPT !.by_line_number = DictSet(@, line_number, notices)]

get_or_create_for_line_number(self, line_number) ==
    IF line_number \notin DOMAIN self.by_line_number
    THEN LineNotices(self.location, line_number)
    ELSE self.by_line_number[line_number]

add_notice(self, line_number, notice) ==
    LET notices == get_or_create_for_line_number(self, line_number)
    IN  [self EXCEPT !.by_line_number =
             DictSet(@, line_number, LineNotices_add(notices, notice))]

\* set_name as it would be if a name carried its notices: the notices of the
\* line the name pointed to go to the new line
set_name_moving(self, name, line_number) ==
    LET named == [self EXCEPT !.name_to_line_number = DictSet(@, name, line_number)]
    IN  IF name \in DOMAIN self.name_to_line_number
           /\ self.name_to_line_number[name] \in DOMAIN self.by_line_number
        THEN [named EXCEPT !.by_line_number =
                 DictSet([l \in DOMAIN @ \ {self.name_to_line_number[name]} |-> @[l]],
                         line_number, self.by_line_number[self.name_to_line_number[name]])]
        ELSE named

set_name(self, name, line_number) ==
    [self EXCEPT !.name_to_line_number = DictSet(@, name, line_number)]

\* what find_for_name_or_line gives back when it raises
FindRaise(error) ==
    [raised |-> error, line_number |-> 0, notices |-> LineNotices("", 0), found |-> None]

FindReturn(line_number, notices, found) ==
    [raised |-> NoError, line_number |-> line_number, notices |-> notices, found |-> found]

\* what building the message of the two must_exist errors raises: the
\* f-string reads the local `name`, which is bound only in the branch taken
\* for a str name_or_line
must_exist_error(name_or_line) ==
    IF isinstance_int(name_or_line) THEN "UnboundLocalError" ELSE "ValueError"

\* for notice in list(notices): the first notice, from the front
RECURSIVE forward_scan(_, _, _)
forward_scan(notices, severity, i) ==
    IF i > Len(notices) THEN None
    ELSE IF severity = None \/ notices[i].severity = severity[1] THEN Some(notices[i])
    ELSE forward_scan(notices, severity, i + 1)

scan_forward(notices, severity) == forward_scan(notices, severity, 1)

\* for notice in reversed(list(notices)), from position i down
RECURSIVE reversed_scan_from(_, _, _)
reversed_scan_from(notices, severity, i) ==
    IF i = 0 THEN None
    ELSE IF severity = None \/ notices[i].severity = severity[1] THEN Some(notices[i])
    ELSE reversed_scan_from(notices, severity, i - 1)

reversed_scan(notices, severity) == reversed_scan_from(notices, severity, Len(notices))

find_for_name_or_line(self, name_or_line, severity, must_exist) ==
    IF ~isinstance_int(name_or_line) /\ name_or_line.name \notin DOMAIN self.name_to_line_number
    THEN FindRaise("ValueError")
    ELSE LET line_number == IF isinstance_int(name_or_line) THEN name_or_line.line_number
                            ELSE self.name_to_line_number[name_or_line.name]
             notices == notices_for_line_number(self, line_number)
         IN  IF must_exist /\ notices = None THEN FindRaise(must_exist_error(name_or_line))
             ELSE IF notices = None
                  THEN FindReturn(line_number, LineNotices(self.location, line_number), None)
             ELSE LET found == reversed_scan(notices[1].notices, severity)
                  IN  IF must_exist /\ found = None
                      THEN FindRaise(must_exist_error(name_or_line))
                      ELSE FindReturn(line_number, notices[1], found)

\* a method that returns a new FileNotices, or raises
Return(value) == [raised |-> NoError, value |-> value]

Raise(error) == [raised |-> error, value |-> None]

\* the shared body of change_reveal, change_error and change_note
change_severity(self, name_or_line, severity, modify) ==
    LET f == find_for_name_or_line(self, name_or_line, Some(severity), TRUE)
    IN  IF f.raised # NoError THEN Raise(f.raised)
        ELSE Return(set_line_notices(self, f.line_number,
                 LineNotices_replace(f.notices, MatchesChooser(f.found[1]),
                                     modify_call(modify, f.found[1]), TRUE)))

change_reveal(self, name_or_line, modify) ==
    change_severity(self, name_or_line, "note", modify)

change_error(self, name_or_line, modify) ==
    change_severity(self, name_or_line, "error", modify)

change_note(self, name_or_line, modify) ==
    change_severity(self, name_or_line, "note", modify)

revealed_msg(revealed) == "Revealed type is \"" \o revealed \o "\""

add_reveal(self, name_or_line, revealed) ==
    LET f == find_for_name_or_line(self, name_or_line, None, FALSE)
    IN  IF f.raised # NoError THEN Raise(f.raised)
        ELSE IF f.found # None
             THEN change_reveal(self, name_or_line, AppendModify(revealed_msg(revealed)))
        ELSE Return(set_line_notices(self, f.line_number,
                 LineNotices_add(f.notices,
                     ProgramNotice(self.location, f.line_number, None, "note", None,
                                   revealed_msg(revealed)))))

add_error_coalescing(self, name_or_line, error_type, error) ==
    LET f == find_for_name_or_line(self, name_or_line, Some("error"), FALSE)
        notice == ProgramNotice(self.location, f.line_number, None, "error",
                                Some(error_type), error)
    IN  IF f.raised # NoError THEN Raise(f.raised)
        ELSE IF f.found # None
             THEN Return(set_line_notices(self, f.line_number,
                      LineNotices_replace(f.notices, MatchesChooser(f.found[1]), notice, TRUE)))
        ELSE Return(set_line_notices(self, f.line_number, LineNotices_add(f.notices, notice)))

add_error(self, name_or_line, error_type, error) ==
    LET f == find_for_name_or_line(self, name_or_line, None, FALSE)
    IN  IF f.raised # NoError THEN Raise(f.raised)
        ELSE Return(set_line_notices(self, f.line_number,
                 LineNotices_add(f.notices,
                     ProgramNotice(self.location, f.line_number, None, "error",
                                   Some(error_type), error))))

add_note_separate(self, name_or_line, note) ==
    LET f == find_for_name_or_line(self, name_or_line, None, FALSE)
    IN  IF f.raised # NoError THEN Raise(f.raised)
        ELSE Return(set_line_notices(self, f.line_number,
                 LineNotices_add(f.notices,
                     ProgramNotice(self.location, f.line_number, None, "note", None, note))))

add_note(self, name_or_line, note) ==
    LET f == find_for_name_or_line(self, name_or_line, None, FALSE)
    IN  IF f.raised # NoError THEN Raise(f.raised)
        ELSE IF f.found # None
             THEN change_reveal(self, name_or_line, AppendModify(note))
        ELSE Return(set_line_notices(self, f.line_number,
                 LineNotices_add(f.notices,
                     ProgramNotice(self.location, f.line_number, None, "note", None, note))))

remove_notices(self, name_or_line, chooser) ==
    LET f == find_for_name_or_line(self, name_or_line, None, FALSE)
    IN  IF f.raised # NoError THEN Raise(f.raised)
        ELSE Return(set_line_notices(self, f.line_number, LineNotices_remove(f.notices, chooser)))

(***************************************************************************)
(* ProgramNotices                                                          *)
(***************************************************************************)
ProgramNotices(notices) == [notices |-> notices]

\* any(notices for notices in self.notices.values()): the truth value of each
\* FileNotices object is what any() tests
ProgramNotices_has_notices(self) ==
    \E location \in DOMAIN self.notices : FileNotices_bool(self.notices[location])

\* the notices that iterating the ProgramNotices yields, as a set
ProgramNotices_iter_set(self) ==
    UNION {{FileNotices_iter(self.notices[location])[i] :
               i \in 1..Len(FileNotices_iter(self.notices[location]))} :
           location \in DOMAIN self.notices}

\* the keys of ProgramNotices.notices in ascending order (sorted(dict.items())
\* on pathlib.Path keys)
RECURSIVE sorted_locations(_)
sorted_locations(locations) ==
    IF locations = {} THEN <<>>
    ELSE LET least == CHOOSE k \in locations :
                          \A other \in locations \ {k} : path_lt(k, other)
         IN  <<least>> \o sorted_locations(locations \ {least})

RECURSIVE flatten_files(_, _)
flatten_files(self, locations) ==
    IF locations = <<>> THEN <<>>
    ELSE FileNotices_iter(self.notices[Head(locations)])
             \o flatten_files(self, Tail(locations))

\* list(program_notices): every notice, file by file
ProgramNotices_iter(self) == flatten_files(self, sorted_locations(DOMAIN self.notices))

(***************************************************************************)
(* DiffFileNotices, DiffNotices and ProgramNotices.diff                    *)
(***************************************************************************)
DiffFileNotices(by_line_number) == [by_line_number |-> by_line_number]

DiffNotices(by_file) == [by_file |-> by_file]

\* the str keys of a dict in ascending order (sorted(dict.items()))
RECURSIVE sorted_strs(_)
sorted_strs(keys) ==
    IF keys = {} THEN <<>>
    ELSE LET least == CHOOSE k \in keys : \A other \in keys \ {k} : str_lt(k, other)
         IN  <<least>> \o sorted_strs(keys \ {least})

\* DiffFileNotices.__iter__ as it would be if only the right side were sorted
DiffFileNotices_iter_right_sorted(self) ==
    LET lines == sorted_keys(DOMAIN self.by_line_number)
    IN  [i \in 1..Len(lines) |->
            [line_number |-> lines[i],
             left_notices |-> self.by_line_number[lines[i]][1],
             right_notices |-> sorted(self.by_line_number[lines[i]][2])]]

\* list(diff_file_notices): (line_number, sorted(left), sorted(right)) by line
DiffFileNotices_iter(self) ==
    LET lines == sorted_keys(DOMAIN self.by_line_number)
    IN  [i \in 1..Len(lines) |->
            [line_number |-> lines[i],
             left_notices |-> sorted(self.by_line_number[lines[i]][1]),
             right_notices |-> sorted(self.by_line_number[lines[i]][2])]]

\* list(diff_notices): (path, DiffFileNotices) by path
DiffNotices_iter(self) ==
    LET paths == sorted_strs(DOMAIN self.by_file)
    IN  [i \in 1..Len(paths) |-> [path |-> paths[i], notices |-> self.by_file[paths[i]]]]

\* the path diff files a notice under
diff_path(notice, root_dir) ==
    IF is_relative_to(notice.location, root_dir)
    THEN relative_to(notice.location, root_dir)
    ELSE notice.location

\* the bucketing of diff as a bug would have it: a notice replaces what its
\* bucket held
RECURSIVE diff_into_overwrite(_, _, _)
diff_into_overwrite(notices, root_dir, into) ==
    IF notices = <<>> THEN into
    ELSE LET notice == Head(notices)
             path == diff_path(notice, root_dir)
             by_line == IF path \in DOMAIN into THEN into[path] ELSE EmptyDict
         IN  diff_into_overwrite(Tail(notices), root_dir,
                 DictSet(into, path,
                     DictSet(by_line, notice.line_number, for_compare(notice))))

\* into[path][notice.line_number].extend(list(notice.for_compare())), for the
\* notices in turn
RECURSIVE diff_into(_, _, _)
diff_into(notices, root_dir, into) ==
    IF notices = <<>> THEN into
    ELSE LET notice == Head(notices)
             path == diff_path(notice, root_dir)
             by_line == IF path \in DOMAIN into THEN into[path] ELSE EmptyDict
             ns == IF notice.line_number \in DOMAIN by_line
                   THEN by_line[notice.line_number] ELSE <<>>
         IN  diff_into(Tail(notices), root_dir,
                 DictSet(into, path,
                     DictSet(by_line, notice.line_number, ns \o for_compare(notice))))

\* what by_file_left or by_file_right holds for a path and a line, and the
\* lines it holds for a path
diff_bucket(frm, path, line_number) ==
    IF path \in DOMAIN frm /\ line_number \in DOMAIN frm[path]
    THEN frm[path][line_number] ELSE <<>>

diff_lines(frm, path) == IF path \in DOMAIN frm THEN DOMAIN frm[path] ELSE {}

\* ProgramNotices.diff with the right side left out
diff_left_only(self, root_dir, other) ==
    LET by_file_left == diff_into(ProgramNotices_iter(self), root_dir, EmptyDict)
    IN  DiffNotices(
            [path \in DOMAIN by_file_left |->
                DiffFileNotices(
                    [line_number \in diff_lines(by_file_left, path) |->
                        <<diff_bucket(by_file_left, path, line_number), <<>>>>])])

diff(self, root_dir, other) ==
    LET by_file_left == diff_into(ProgramNotices_iter(self), root_dir, EmptyDict)
        by_file_right == diff_into(ProgramNotices_iter(other), root_dir, EmptyDict)
    IN  DiffNotices(
            [path \in DOMAIN by_file_left \cup DOMAIN by_file_right |->
                DiffFileNotices(
                    [line_number \in diff_lines(by_file_left, path)
                                         \cup diff_lines(by_file_right, path) |->
                        <<diff_bucket(by_file_left, path, line_number),
                          diff_bucket(by_file_right, path, line_number)>>])])

(***************************************************************************)
(* compare_notices: the comparison of the two sides of a DiffNotices.  The *)
(* report is a sequence of entries: a "file" entry heads the entries of a  *)
(* path; a "tick" entry is a confirmed notice; a "cross" entry is a slot   *)
(* whose two sides differ, with what was got (right) and wanted (left),    *)
(* None standing for the placeholder of the shorter side.                  *)
(***************************************************************************)
RECURSIVE concat(_)
concat(seqs) == IF seqs = <<>> THEN <<>> ELSE Head(seqs) \o concat(Tail(seqs))

\* the i-th notice of one side of a line, None beyond its end
slot_of(notices, i) == IF i <= Len(notices) THEN Some(notices[i]) ELSE None

\* the pair of slot i matches: right.matches(left)
slot_matches(left, right) ==
    /\ left # None
    /\ right # None
    /\ matches(right[1], left[1])

\* the entries of one line: the two sorted sides zipped to equal length
compare_line(path, line) ==
    LET longest == IF Len(line.left_notices) >= Len(line.right_notices)
                   THEN Len(line.left_notices) ELSE Len(line.right_notices)
    IN  [i \in 1..longest |->
            LET left == slot_of(line.left_notices, i)
                right == slot_of(line.right_notices, i)
            IN  IF slot_matches(left, right)
                THEN [kind |-> "tick", path |-> path, line_number |-> line.line_number,
                      got |-> right, want |-> left]
                ELSE [kind |-> "cross", path |-> path, line_number |-> line.line_number,
                      got |-> right, want |-> left]]

compare_file(file) ==
    LET lines == DiffFileNotices_iter(file.notices)
    IN  <<[kind |-> "file", path |-> file.path, line_number |-> 0,
           got |-> None, want |-> None]>>
            \o concat([j \in 1..Len(lines) |-> compare_line(file.path, lines[j])])

\* compare_notices as a bug would have it: the report ends with the first
\* line that differs
RECURSIVE until_first_cross_line(_, _)
until_first_cross_line(report, seen) ==
    IF report = <<>> THEN <<>>
    ELSE LET entry == Head(report)
         IN  IF seen # None /\ (entry.kind = "file" \/ <<entry.path, entry.line_number>> # seen[1])
             THEN <<>>
             ELSE <<entry>> \o until_first_cross_line(Tail(report),
                      IF entry.kind = "cross" THEN Some(<<entry.path, entry.line_number>>)
                      ELSE seen)

compare_report_first_only(diff_notices) ==
    LET files == DiffNotices_iter(diff_notices)
    IN  until_first_cross_line(concat([i \in 1..Len(files) |-> compare_file(files[i])]), None)

compare_report(diff_notices) ==
    LET files == DiffNotices_iter(diff_notices)
    IN  concat([i \in 1..Len(files) |-> compare_file(files[i])])

compare_notices(diff_notices) ==
    LET report == compare_report(diff_notices)
    IN  [raised |-> IF \E i \in 1..Len(report) : report[i].kind = "cross"
                    THEN "ComparisonMismatch" ELSE NoError,
         report |-> report]

(***************************************************************************)
(* The scenario a ScenarioBuilder works on: its root_dir, what the builder *)
(* has been told to expect of the runs, and the files written under        *)
(* root_dir (location -> content).                                         *)
(***************************************************************************)
RootDir == "/r"

Scenario(root_dir) ==
    [root_dir |-> root_dir, expects |-> [failure |-> FALSE], files |-> EmptyDict]

(***************************************************************************)
(* The inputs of the operations.                                           *)
(***************************************************************************)
\* the line numbers callers address
Lines == {1, 2}

\* the names set_name gives to lines, and the names lines are looked up by
SetNames == {"a"}

Names == {"a", "b"}

LocA == "/r/a.py"

LocB == "/r/b.py"

Locations == {LocA, LocB}

NameOrLines == {IntArg(n) : n \in Lines} \cup {StrArg(s) : s \in Names}

Revealed == {"int"}

Notes == {"x"}

ErrorTypes == {"arg-type"}

Errors == {"e1", "e2"}

Severities == {"error", "note"}

OptSeverities == {None} \cup {Some(s) : s \in Severities}

\* the notice a caller hands to add_notice: made for line 1 of the file, with a
\* column and a custom severity
InputNotices == {ProgramNotice(LocA, 1, Some(1), "warning", None, "w")}

\* the modify a caller hands to change_error, and to change_reveal and
\* change_note: each rewrites the message
ErrorModifies == {CloneModify([msg |-> "e2"])}

NoteModifies == {CloneModify([msg |-> "x"])}

Choosers == {AnyChooser, SeverityChooser("error")}

\* LineNotices a caller hands to set_line_notices: a new one for the line,
\* empty or holding one error
InputLineNotices(self, line_number) ==
    {LineNotices(self.location, line_number),
     LineNotices_add(LineNotices(self.location, line_number),
         ProgramNotice(self.location, line_number, None, "error", Some("arg-type"), "e1"))}

(***************************************************************************)
(* Objects.  A heap is the sequence of the LineNotices and FileNotices     *)
(* objects made so far, and a reference is a position in it.  A cell holds *)
(* the fields of its object: the list of a LineNotices and the two dicts   *)
(* of a FileNotices are part of the cell of the object that owns them, and *)
(* by_line_number maps a line to the reference of its LineNotices.         *)
(***************************************************************************)
HeapLineNotices(location, line_number, notices) ==
    [cls |-> "LineNotices", location |-> location, line_number |-> line_number,
     notices |-> notices, by_line_number |-> EmptyDict, name_to_line_number |-> EmptyDict]

HeapFileNotices(location, by_line_number, name_to_line_number) ==
    [cls |-> "FileNotices", location |-> location, line_number |-> 0, notices |-> <<>>,
     by_line_number |-> by_line_number, name_to_line_number |-> name_to_line_number]

\* a new object: the heap with the cell appended, and its reference
Alloc(h, cell) == [heap |-> Append(h, cell), ret |-> Len(h) + 1, raised |-> NoError]

HeapRaise(h, error) == [heap |-> h, ret |-> 0, raised |-> error]

\* LineNotices.add as a bug would have it: self.notices.append(notice)
heap_LineNotices_add_in_place(h, self, notice) ==
    [heap |-> [h EXCEPT ![self].notices = Append(@, notice)], ret |-> self,
     raised |-> NoError]

\* dataclasses.replace(self, notices=[*self.notices, notice])
heap_LineNotices_add(h, self, notice) ==
    Alloc(h, [h[self] EXCEPT !.notices = Append(@, notice)])

heap_LineNotices_replace(h, self, chooser, replaced, first_only) ==
    Alloc(h, [h[self] EXCEPT !.notices = replace_loop(@, chooser, replaced, first_only, FALSE)])

heap_LineNotices_remove(h, self, chooser) ==
    Alloc(h, [h[self] EXCEPT !.notices = SelectSeq(@, LAMBDA n : ~chooser_call(chooser, n))])

\* dataclasses.replace(self, by_line_number={**self.by_line_number, ...})
heap_set_line_notices(h, self, line_number, notices) ==
    Alloc(h, [h[self] EXCEPT !.by_line_number = DictSet(@, line_number, notices)])

heap_set_name(h, self, name, line_number) ==
    Alloc(h, [h[self] EXCEPT !.name_to_line_number = DictSet(@, name, line_number)])

heap_add_notice(h, self, line_number, notice) ==
    LET created == IF line_number \in DOMAIN h[self].by_line_number
                   THEN [heap |-> h, ret |-> h[self].by_line_number[line_number]]
                   ELSE Alloc(h, HeapLineNotices(h[self].location, line_number, <<>>))
        added == heap_LineNotices_add(created.heap, created.ret, notice)
    IN  heap_set_line_notices(added.heap, self, line_number, added.ret)

\* find_for_name_or_line: notices is the reference of the LineNotices of the
\* line, a new object when the line has none
heap_find(h, self, name_or_line, severity, must_exist) ==
    IF ~isinstance_int(name_or_line)
           /\ name_or_line.name \notin DOMAIN h[self].name_to_line_number
    THEN [heap |-> h, raised |-> "ValueError", line_number |-> 0, notices |-> 0,
          found |-> None]
    ELSE LET line_number == IF isinstance_int(name_or_line) THEN name_or_line.line_number
                            ELSE h[self].name_to_line_number[name_or_line.name]
             stored == line_number \in DOMAIN h[self].by_line_number
         IN  IF must_exist /\ ~stored
             THEN [heap |-> h, raised |-> must_exist_error(name_or_line),
                   line_number |-> 0, notices |-> 0, found |-> None]
             ELSE IF ~stored
                  THEN [heap |-> Append(h, HeapLineNotices(h[self].location, line_number, <<>>)),
                        raised |-> NoError, line_number |-> line_number,
                        notices |-> Len(h) + 1, found |-> None]
             ELSE LET notices == h[self].by_line_number[line_number]
                      found == reversed_scan(h[notices].notices, severity)
                  IN  IF must_exist /\ found = None
                      THEN [heap |-> h, raised |-> must_exist_error(name_or_line),
                            line_number |-> 0, notices |-> 0, found |-> None]
                      ELSE [heap |-> h, raised |-> NoError, line_number |-> line_number,
                            notices |-> notices, found |-> found]

\* change_reveal, change_error and change_note
heap_change_severity(h, self, name_or_line, severity, modify) ==
    LET f == heap_find(h, self, name_or_line, Some(severity), TRUE)
    IN  IF f.raised # NoError THEN HeapRaise(h, f.raised)
        ELSE LET replaced == heap_LineNotices_replace(f.heap, f.notices,
                                 MatchesChooser(f.found[1]),
                                 modify_call(modify, f.found[1]), TRUE)
             IN  heap_set_line_notices(replaced.heap, self, f.line_number, replaced.ret)

\* add_reveal and add_note, msg being the text of the new note
heap_add_note(h, self, name_or_line, msg) ==
    LET f == heap_find(h, self, name_or_line, None, FALSE)
    IN  IF f.raised # NoError THEN HeapRaise(h, f.raised)
        ELSE IF f.found # None
             THEN heap_change_severity(f.heap, self, name_or_line, "note", AppendModify(msg))
        ELSE LET added == heap_LineNotices_add(f.heap, f.notices,
                              ProgramNotice(h[self].location, f.line_number, None, "note",
                                            None, msg))
             IN  heap_set_line_notices(added.heap, self, f.line_number, added.ret)

heap_add_error(h, self, name_or_line, error_type, error) ==
    LET f == heap_find(h, self, name_or_line, None, FALSE)
    IN  IF f.raised # NoError THEN HeapRaise(h, f.raised)
        ELSE LET added == heap_LineNotices_add(f.heap, f.notices,
                              ProgramNotice(h[self].location, f.line_number, None, "error",
                                            Some(error_type), error))
             IN  heap_set_line_notices(added.heap, self, f.line_number, added.ret)

heap_remove_notices(h, self, name_or_line, chooser) ==
    LET f == heap_find(h, self, name_or_line, None, FALSE)
    IN  IF f.raised # NoError THEN HeapRaise(h, f.raised)
        ELSE LET removed == heap_LineNotices_remove(f.heap, f.notices, chooser)
             IN  heap_set_line_notices(removed.heap, self, f.line_number, removed.ret)

(***************************************************************************)
(* The state machine: fn is the FileNotices a caller holds; each operation *)
(* is called on fn and the caller keeps the result, or keeps fn when the   *)
(* operation raises.  last names the last operation that returned.         *)
(* calls[n] holds the texts handed to add_reveal and add_note for line n,  *)
(* in call order.  program is the ProgramNotices a caller has built.       *)
(* query is the last call of a function of no state with what it returned. *)
(* heap holds the LineNotices and FileNotices objects made so far.         *)
(* known_files is the _known_files of a ScenarioBuilder, scenario the       *)
(* scenario of its runner, and history what a test has asked of the        *)
(* builder so far.                                                         *)
(***************************************************************************)
msg_lines(notice) == Len(split_newline(notice.msg))

\* the bounds on a result r the caller keeps: MaxNotices notices in the file,
\* and MaxMsgLines lines in a message
CountWithinBounds(r) ==
    r.raised = NoError => Len(FileNotices_iter(r.value)) <= MaxNotices

MsgWithinBounds(r) ==
    r.raised = NoError =>
        LET all == FileNotices_iter(r.value)
        IN  \A i \in 1..Len(all) : msg_lines(all[i]) <= MaxMsgLines

\* no call made yet
NoQuery == [op |-> "none"]

\* the caller keeps the result r of calling an operation on fn
Step(op, r) ==
    /\ CountWithinBounds(r)
    /\ fn' = IF r.raised = NoError THEN r.value ELSE fn
    /\ last' = IF r.raised = NoError THEN op ELSE last

SetNameOp ==
    \E name \in SetNames, line_number \in Lines :
        Step("set_name", Return(set_name(fn, name, line_number)))

AddNoticeOp ==
    \E line_number \in Lines, notice \in InputNotices :
        Step("add_notice", Return(add_notice(fn, line_number, notice)))

SetLineNoticesOp ==
    \E line_number \in Lines :
        \E notices \in InputLineNotices(fn, line_number) :
            Step("set_line_notices", Return(set_line_notices(fn, line_number, notices)))

AddRevealOp(name_or_line, revealed) ==
    /\ MsgWithinBounds(add_reveal(fn, name_or_line, revealed))
    /\ Step("add_reveal", add_reveal(fn, name_or_line, revealed))

AddNoteOp(name_or_line, note) ==
    /\ MsgWithinBounds(add_note(fn, name_or_line, note))
    /\ Step("add_note", add_note(fn, name_or_line, note))

AddErrorOp(name_or_line, error_type, error) ==
    Step("add_error", add_error(fn, name_or_line, error_type, error))

ChangeRevealOp ==
    \E name_or_line \in NameOrLines, modify \in NoteModifies :
        Step("change_reveal", change_reveal(fn, name_or_line, modify))

ChangeErrorOp ==
    \E name_or_line \in NameOrLines, modify \in ErrorModifies :
        Step("change_error", change_error(fn, name_or_line, modify))

ChangeNoteOp ==
    \E name_or_line \in NameOrLines, modify \in NoteModifies :
        Step("change_note", change_note(fn, name_or_line, modify))

RemoveNoticesOp ==
    \E name_or_line \in NameOrLines, chooser \in Choosers :
        Step("remove_notices", remove_notices(fn, name_or_line, chooser))

FindOp ==
    \E name_or_line \in NameOrLines, severity \in OptSeverities, must_exist \in BOOLEAN :
        LET f == find_for_name_or_line(fn, name_or_line, severity, must_exist)
        IN  /\ fn' = fn
            /\ last' = IF f.raised = NoError THEN "find_for_name_or_line" ELSE last

(***************************************************************************)
(* Spec: every operation of FileNotices, from FileNotices(location=LocA).  *)
(***************************************************************************)
Init ==
    /\ fn = FileNotices(LocA)
    /\ last = "FileNotices"
    /\ calls = [n \in Lines |-> <<>>]
    /\ program = ProgramNotices(EmptyDict)
    /\ query = NoQuery
    /\ heap = <<HeapFileNotices(LocA, EmptyDict, EmptyDict)>>
    /\ known_files = EmptyDict
    /\ scenario = Scenario(RootDir)
    /\ history = [registered |-> EmptyDict, events |-> <<>>]

SetName == SetNameOp /\ UNCHANGED <<calls, program, query, heap, known_files, scenario, history>>

AddNotice == AddNoticeOp /\ UNCHANGED <<calls, program, query, heap, known_files, scenario, history>>

SetLineNotices == SetLineNoticesOp /\ UNCHANGED <<calls, program, query, heap, known_files, scenario, history>>

AddReveal ==
    /\ \E name_or_line \in NameOrLines, revealed \in Revealed :
           AddRevealOp(name_or_line, revealed)
    /\ UNCHANGED <<calls, program, query, heap, known_files, scenario, history>>

AddNote ==
    /\ \E name_or_line \in NameOrLines, note \in Notes : AddNoteOp(name_or_line, note)
    /\ UNCHANGED <<calls, program, query, heap, known_files, scenario, history>>

AddError ==
    /\ \E name_or_line \in NameOrLines, error_type \in ErrorTypes, error \in Errors :
           AddErrorOp(name_or_line, error_type, error)
    /\ UNCHANGED <<calls, program, query, heap, known_files, scenario, history>>

ChangeReveal == ChangeRevealOp /\ UNCHANGED <<calls, program, query, heap, known_files, scenario, history>>

ChangeError == ChangeErrorOp /\ UNCHANGED <<calls, program, query, heap, known_files, scenario, history>>

ChangeNote == ChangeNoteOp /\ UNCHANGED <<calls, program, query, heap, known_files, scenario, history>>

RemoveNotices == RemoveNoticesOp /\ UNCHANGED <<calls, program, query, heap, known_files, scenario, history>>

Find == FindOp /\ UNCHANGED <<calls, program, query, heap, known_files, scenario, history>>

Next ==
    \/ SetName
    \/ AddNotice
    \/ SetLineNotices
    \/ AddReveal
    \/ AddNote
    \/ AddError
    \/ ChangeReveal
    \/ ChangeError
    \/ ChangeNote
    \/ RemoveNotices
    \/ Find

Spec == Init /\ [][Next]_vars

(***************************************************************************)
(* SpecAdd: add_reveal, add_note and add_error (and set_name) from an      *)
(* empty FileNotices, with the texts of the add_reveal and add_note calls  *)
(* logged per resolved line in calls.                                      *)
(***************************************************************************)
Resolvable(self, name_or_line) ==
    isinstance_int(name_or_line) \/ name_or_line.name \in DOMAIN self.name_to_line_number

ResolvedLine(self, name_or_line) ==
    IF isinstance_int(name_or_line) THEN name_or_line.line_number
    ELSE self.name_to_line_number[name_or_line.name]

\* a call addressed to a line that resolves is logged, and at most MaxMsgLines
\* calls are made for one line
Logged(name_or_line, text) ==
    IF Resolvable(fn, name_or_line)
    THEN /\ Len(calls[ResolvedLine(fn, name_or_line)]) < MaxMsgLines
         /\ calls' = [calls EXCEPT ![ResolvedLine(fn, name_or_line)] = Append(@, text)]
    ELSE calls' = calls

AddSetName == SetNameOp /\ UNCHANGED <<calls, program, query, heap, known_files, scenario, history>>

AddRevealLogged ==
    /\ \E name_or_line \in NameOrLines, revealed \in Revealed :
           /\ AddRevealOp(name_or_line, revealed)
           /\ Logged(name_or_line, revealed_msg(revealed))
    /\ UNCHANGED <<program, query, heap, known_files, scenario, history>>

AddNoteLogged ==
    /\ \E name_or_line \in NameOrLines, note \in Notes :
           /\ AddNoteOp(name_or_line, note)
           /\ Logged(name_or_line, note)
    /\ UNCHANGED <<program, query, heap, known_files, scenario, history>>

AddErrorLogged ==
    /\ \E name_or_line \in NameOrLines, error_type \in ErrorTypes, error \in Errors :
           AddErrorOp(name_or_line, error_type, error)
    /\ UNCHANGED <<calls, program, query, heap, known_files, scenario, history>>

NextAdd ==
    \/ AddSetName
    \/ AddRevealLogged
    \/ AddNoteLogged
    \/ AddErrorLogged

SpecAdd == Init /\ [][NextAdd]_vars

(***************************************************************************)
(* SpecProgram: a caller builds FileNotices for two files and puts them    *)
(* into a ProgramNotices.                                                  *)
(***************************************************************************)
NewFileNotices ==
    /\ \E location \in Locations : fn' = FileNotices(location)
    /\ last' = "FileNotices"
    /\ UNCHANGED <<calls, program, query, heap, known_files, scenario, history>>

ProgramAddError ==
    /\ AddErrorOp(IntArg(1), "arg-type", "e1")
    /\ UNCHANGED <<calls, program, query, heap, known_files, scenario, history>>

ProgramRemoveNotices ==
    /\ Step("remove_notices", remove_notices(fn, IntArg(1), AnyChooser))
    /\ UNCHANGED <<calls, program, query, heap, known_files, scenario, history>>

\* ProgramNotices(notices={**program.notices, fn.location: fn})
ProgramPutFile ==
    /\ program' = ProgramNotices(DictSet(program.notices, fn.location, fn))
    /\ last' = "ProgramNotices"
    /\ UNCHANGED <<fn, calls, query, heap, known_files, scenario, history>>

NextProgram ==
    \/ NewFileNotices
    \/ ProgramAddError
    \/ ProgramRemoveNotices
    \/ ProgramPutFile

SpecProgram == Init /\ [][NextProgram]_vars

(***************************************************************************)
(* SpecMatches: a caller calls ProgramNotice.matches once, on any two       *)
(* notices.                                                                *)
(***************************************************************************)
Cols == {None, Some(1), Some(2)}

Tags == {None, Some("arg-type")}

Msgs == {"x", "e1"}

MatchNotices ==
    {ProgramNotice(p, n, col, severity, tag, msg) :
        p \in Locations, n \in Lines, col \in Cols, severity \in Severities,
        tag \in Tags, msg \in Msgs}

Matches ==
    /\ query = NoQuery
    /\ \E self \in MatchNotices, other \in MatchNotices :
           query' = [op |-> "matches", self |-> self, other |-> other,
                     ret |-> matches(self, other)]
    /\ UNCHANGED <<fn, last, calls, program, heap, known_files, scenario, history>>

NextMatches == Matches

SpecMatches == Init /\ [][NextMatches]_vars

(***************************************************************************)
(* Claims about ProgramNotice.matches (SpecMatches).                       *)
(***************************************************************************)
EqualButCol(a, b) ==
    /\ a.location = b.location
    /\ a.line_number = b.line_number
    /\ a.severity = b.severity
    /\ a.tag = b.tag
    /\ a.msg = b.msg

\* C1: column is a wildcard: for two notices equal in location, line_number,
\* severity, tag and msg, matches is false only when both columns are set and
\* differ (so a None column on one side never makes a mismatch), and two
\* differing concrete columns always mismatch.
C1_ColumnIsWildcard ==
    (query.op = "matches" /\ EqualButCol(query.self, query.other)) =>
        (query.ret = FALSE <=>
            (/\ query.self.col # None
             /\ query.other.col # None
             /\ query.self.col # query.other.col))

\* C2: matches is reflexive and symmetric: a.matches(a) is true for every
\* notice a, and a.matches(b) = b.matches(a) for every pair of notices.
C2_MatchesReflexiveSymmetric ==
    query.op = "matches" =>
        /\ matches(query.self, query.self)
        /\ matches(query.other, query.other)
        /\ query.ret = matches(query.other, query.self)

\* a call on two notices that differ only in that one has no column
C2_Witness ==
    /\ query.op = "matches"
    /\ EqualButCol(query.self, query.other)
    /\ query.self.col = None
    /\ query.other.col # None
    /\ query.ret = FALSE

(***************************************************************************)
(* Claims about has_notices and the stored notices.                        *)
(***************************************************************************)
\* C3: FileNotices.has_notices is true if and only if at least one line holds
\* at least one notice, in every FileNotices reachable from an empty one.
C3_HasNoticesIffSomeNotice ==
    FileNotices_has_notices(fn) <=>
        \E line_number \in DOMAIN fn.by_line_number :
            Len(fn.by_line_number[line_number].notices) > 0

\* C4: ProgramNotices.has_notices is true if and only if at least one
\* contained FileNotices has has_notices true.
C4_ProgramHasNoticesIffSomeFile ==
    ProgramNotices_has_notices(program) <=>
        \E location \in DOMAIN program.notices :
            FileNotices_has_notices(program.notices[location])

\* C4, as the claim restates it: has_notices is true if and only if iterating
\* the ProgramNotices yields at least one notice.
C4_ProgramHasNoticesIffYields ==
    ProgramNotices_has_notices(program) <=> ProgramNotices_iter_set(program) # {}

\* C5: every notice stored under line L of a file at location P has
\* line_number L and location P.
C5_StoredNoticeHasLineAndLocation ==
    \A line_number \in DOMAIN fn.by_line_number :
        \A i \in 1..Len(fn.by_line_number[line_number].notices) :
            /\ fn.by_line_number[line_number].notices[i].line_number = line_number
            /\ fn.by_line_number[line_number].notices[i].location = fn.location

(***************************************************************************)
(* Claims about add_reveal, add_note and add_error.                        *)
(***************************************************************************)
\* the notices the file holds at a line: none when the line is not stored
NoticesAt(self, line_number) ==
    IF line_number \in DOMAIN self.by_line_number
    THEN self.by_line_number[line_number].notices
    ELSE <<>>

WithSeverity(notices, severity) ==
    SelectSeq(notices, LAMBDA n : n.severity = severity)

RECURSIVE join_newline(_)
join_newline(texts) ==
    IF Len(texts) = 1 THEN texts[1]
    ELSE texts[1] \o "\n" \o join_newline(Tail(texts))

\* C6: after any sequence of add_reveal, add_note and add_error on an empty
\* FileNotices, each line holds at most one note, and that note's msg is the
\* texts of the add_reveal and add_note calls made at that line, in call
\* order, joined by newlines.
C6_NotesCoalesce ==
    \A line_number \in DOMAIN fn.by_line_number :
        LET notes == WithSeverity(NoticesAt(fn, line_number), "note")
        IN  /\ Len(notes) <= 1
            /\ Len(notes) = 1 =>
                   /\ calls[line_number] # <<>>
                   /\ notes[1].msg = join_newline(calls[line_number])

\* add_reveal or add_note has returned and a line holds, beside an error, one
\* note made of two different texts
C6_Witness ==
    \E line_number \in DOMAIN fn.by_line_number :
        /\ last \in {"add_reveal", "add_note"}
        /\ Len(WithSeverity(NoticesAt(fn, line_number), "note")) = 1
        /\ Len(WithSeverity(NoticesAt(fn, line_number), "error")) >= 1
        /\ Len(calls[line_number]) >= 2
        /\ calls[line_number][1] # calls[line_number][2]

NewNote(self, line_number, msg) ==
    ProgramNotice(self.location, line_number, None, "note", None, msg)

\* the result r holds, at line_number, the notices self held there and then
\* notice, and is self everywhere else
AppendedAt(self, r, line_number, notice) ==
    /\ r.raised = NoError
    /\ DOMAIN r.value.by_line_number = DOMAIN self.by_line_number \cup {line_number}
    /\ r.value.by_line_number[line_number].notices =
           Append(NoticesAt(self, line_number), notice)
    /\ \A other \in DOMAIN self.by_line_number \ {line_number} :
           r.value.by_line_number[other] = self.by_line_number[other]
    /\ r.value.name_to_line_number = self.name_to_line_number
    /\ r.value.location = self.location

\* C7: add_reveal and add_note at a resolved line that holds no note succeed
\* and add a new note (col None, tag None) with the given message, whatever
\* else the line holds.
C7_AddsNoteWhenLineHasNone ==
    \A name_or_line \in NameOrLines :
        (/\ Resolvable(fn, name_or_line)
         /\ WithSeverity(NoticesAt(fn, ResolvedLine(fn, name_or_line)), "note") = <<>>)
        => LET line_number == ResolvedLine(fn, name_or_line)
           IN  /\ \A revealed \in Revealed :
                      AppendedAt(fn, add_reveal(fn, name_or_line, revealed), line_number,
                                 NewNote(fn, line_number, revealed_msg(revealed)))
               /\ \A note \in Notes :
                      AppendedAt(fn, add_note(fn, name_or_line, note), line_number,
                                 NewNote(fn, line_number, note))

\* C8: add_error never coalesces: for a resolvable name_or_line it appends
\* one new error notice (tag error_type, col None, msg error) after the
\* notices of the resolved line, which keep their content and order; every
\* other line and the name table are unchanged.
C8_AddErrorAppendsOne ==
    \A name_or_line \in NameOrLines, error_type \in ErrorTypes, error \in Errors :
        Resolvable(fn, name_or_line) =>
            LET line_number == ResolvedLine(fn, name_or_line)
            IN  AppendedAt(fn, add_error(fn, name_or_line, error_type, error), line_number,
                    ProgramNotice(fn.location, line_number, None, "error",
                                  Some(error_type), error))

\* add_error has returned and a line holds an error after another error
C8_Witness ==
    /\ last = "add_error"
    /\ \E line_number \in DOMAIN fn.by_line_number :
           LET notices == NoticesAt(fn, line_number)
           IN  /\ Len(notices) >= 2
               /\ notices[Len(notices)].severity = "error"
               /\ notices[Len(notices) - 1].severity = "error"

(***************************************************************************)
(* Claims about find_for_name_or_line.                                     *)
(***************************************************************************)
\* the positions of the notices that have the severity asked for
Positions(notices, severity) ==
    {i \in 1..Len(notices) : severity = None \/ notices[i].severity = severity[1]}

MaxOf(S) == CHOOSE i \in S : \A j \in S : j <= i

\* C9: find_for_name_or_line returns the last stored notice of the severity
\* asked for at the resolved line (the last notice of any severity when
\* severity is None), and None when must_exist is false and there is none;
\* after add_error at a line, the lookup of severity "error" at that line
\* returns the notice just added.
C9_FindReturnsMostRecent ==
    \A name_or_line \in NameOrLines :
        Resolvable(fn, name_or_line) =>
            LET line_number == ResolvedLine(fn, name_or_line)
                notices == NoticesAt(fn, line_number)
            IN  /\ \A severity \in OptSeverities, must_exist \in BOOLEAN :
                       LET f == find_for_name_or_line(fn, name_or_line, severity, must_exist)
                           at == Positions(notices, severity)
                       IN  /\ ~must_exist => f.raised = NoError
                           /\ f.raised = NoError =>
                                  /\ f.line_number = line_number
                                  /\ f.found = IF at = {} THEN None
                                               ELSE Some(notices[MaxOf(at)])
                /\ \A error_type \in ErrorTypes, error \in Errors, must_exist \in BOOLEAN :
                       LET r == add_error(fn, name_or_line, error_type, error)
                           f == find_for_name_or_line(r.value, IntArg(line_number),
                                                      Some("error"), must_exist)
                       IN  /\ f.raised = NoError
                           /\ f.found = Some(ProgramNotice(fn.location, line_number, None,
                                                 "error", Some(error_type), error))

\* add_error has returned and a line holds two different errors, the later
\* one being what the lookup of severity "error" returns
C9_Witness ==
    /\ last = "add_error"
    /\ \E line_number \in DOMAIN fn.by_line_number :
           LET errors == WithSeverity(NoticesAt(fn, line_number), "error")
           IN  /\ Len(errors) >= 2
               /\ errors[1] # errors[Len(errors)]
               /\ find_for_name_or_line(fn, IntArg(line_number), Some("error"), FALSE).found
                      = Some(errors[Len(errors)])

\* C10: lookup failures are one error, ValueError: every operation addressed
\* by an unknown name raises it, and find_for_name_or_line with must_exist
\* (hence change_error, change_reveal and change_note) raises it whenever the
\* resolved line holds no notice of the severity asked for, by name and by
\* integer alike.
C10_LookupFailureIsValueError ==
    \A name_or_line \in NameOrLines :
        /\ ~Resolvable(fn, name_or_line) =>
               /\ \A severity \in OptSeverities, must_exist \in BOOLEAN :
                      find_for_name_or_line(fn, name_or_line, severity, must_exist).raised
                          = "ValueError"
               /\ \A revealed \in Revealed :
                      add_reveal(fn, name_or_line, revealed).raised = "ValueError"
               /\ \A note \in Notes : add_note(fn, name_or_line, note).raised = "ValueError"
               /\ \A error_type \in ErrorTypes, error \in Errors :
                      add_error(fn, name_or_line, error_type, error).raised = "ValueError"
               /\ \A chooser \in Choosers :
                      remove_notices(fn, name_or_line, chooser).raised = "ValueError"
               /\ \A modify \in ErrorModifies :
                      change_error(fn, name_or_line, modify).raised = "ValueError"
               /\ \A modify \in NoteModifies :
                      /\ change_reveal(fn, name_or_line, modify).raised = "ValueError"
                      /\ change_note(fn, name_or_line, modify).raised = "ValueError"
        /\ Resolvable(fn, name_or_line) =>
               LET notices == NoticesAt(fn, ResolvedLine(fn, name_or_line))
               IN  /\ \A severity \in OptSeverities :
                          Positions(notices, severity) = {} =>
                              find_for_name_or_line(fn, name_or_line, severity, TRUE).raised
                                  = "ValueError"
                   /\ WithSeverity(notices, "error") = <<>> =>
                          \A modify \in ErrorModifies :
                              change_error(fn, name_or_line, modify).raised = "ValueError"
                   /\ WithSeverity(notices, "note") = <<>> =>
                          \A modify \in NoteModifies :
                              /\ change_reveal(fn, name_or_line, modify).raised = "ValueError"
                              /\ change_note(fn, name_or_line, modify).raised = "ValueError"

\* C10 for lines addressed by name only
C10_NamedLookupFailureIsValueError ==
    \A name \in Names :
        LET name_or_line == StrArg(name)
        IN  /\ ~Resolvable(fn, name_or_line) =>
                   \A severity \in OptSeverities, must_exist \in BOOLEAN :
                       find_for_name_or_line(fn, name_or_line, severity, must_exist).raised
                           = "ValueError"
            /\ Resolvable(fn, name_or_line) =>
                   \A severity \in OptSeverities :
                       Positions(NoticesAt(fn, ResolvedLine(fn, name_or_line)), severity) = {} =>
                           find_for_name_or_line(fn, name_or_line, severity, TRUE).raised
                               = "ValueError"

(***************************************************************************)
(* Claims about change_error, change_reveal and change_note.               *)
(***************************************************************************)
\* the result r holds, at line_number, the notices self held there with the
\* one at position p replaced by notice, and is self everywhere else
SubstitutedAt(self, r, line_number, p, notice) ==
    /\ r.raised = NoError
    /\ DOMAIN r.value.by_line_number = DOMAIN self.by_line_number
    /\ r.value.by_line_number[line_number].notices =
           [NoticesAt(self, line_number) EXCEPT ![p] = notice]
    /\ \A other \in DOMAIN self.by_line_number \ {line_number} :
           r.value.by_line_number[other] = self.by_line_number[other]
    /\ r.value.name_to_line_number = self.name_to_line_number
    /\ r.value.location = self.location

C11_ChangeSubstitutesWhenDistinct ==
    \A name_or_line \in NameOrLines :
        (/\ Resolvable(fn, name_or_line)
         /\ LET notices == NoticesAt(fn, ResolvedLine(fn, name_or_line))
            IN  \A i, j \in 1..Len(notices) : i # j => ~matches(notices[i], notices[j]))
        => LET line_number == ResolvedLine(fn, name_or_line)
               notices == NoticesAt(fn, line_number)
               errors == Positions(notices, Some("error"))
           IN  errors # {} =>
                   \A modify \in ErrorModifies :
                       SubstitutedAt(fn, change_error(fn, name_or_line, modify),
                           line_number, MaxOf(errors),
                           modify_call(modify, notices[MaxOf(errors)]))

(***************************************************************************)
(* SpecReplace: a caller calls LineNotices.replace once, on a line of up   *)
(* to MaxLineLen notices.                                                  *)
(***************************************************************************)
MaxLineLen == 3

SeqsUpTo(S, n) == UNION {[1..k -> S] : k \in 0..n}

ReplaceNotices ==
    {ProgramNotice(LocA, 1, None, "error", Some("arg-type"), "e1"),
     ProgramNotice(LocA, 1, None, "error", Some("arg-type"), "e2"),
     ProgramNotice(LocA, 1, None, "note", None, "x")}

ReplaceChoosers ==
    {AnyChooser, SeverityChooser("error"), SeverityChooser("note"),
     MatchesChooser(ProgramNotice(LocA, 1, None, "error", Some("arg-type"), "e1"))}

ReplacedNotices ==
    {ProgramNotice(LocA, 1, None, "error", Some("arg-type"), "e2"),
     ProgramNotice(LocA, 1, Some(1), "note", None, "y")}

Replace ==
    /\ query = NoQuery
    /\ \E notices \in SeqsUpTo(ReplaceNotices, MaxLineLen), chooser \in ReplaceChoosers,
          replaced \in ReplacedNotices, first_only \in BOOLEAN :
           LET self == [LineNotices(LocA, 1) EXCEPT !.notices = notices]
           IN  query' = [op |-> "replace", self |-> self, chooser |-> chooser,
                         replaced |-> replaced, first_only |-> first_only,
                         ret |-> LineNotices_replace(self, chooser, replaced, first_only)]
    /\ UNCHANGED <<fn, last, calls, program, heap, known_files, scenario, history>>

NextReplace == Replace

SpecReplace == Init /\ [][NextReplace]_vars

\* the positions of the notices the chooser of the call is true for
Chosen(q) == {i \in 1..Len(q.self.notices) : chooser_call(q.chooser, q.self.notices[i])}

MinOf(S) == CHOOSE i \in S : \A j \in S : i <= j

\* C20: LineNotices.replace keeps the length and the order of the line: with
\* first_only the first notice (in stored order) the chooser is true for
\* becomes replaced and every later one passes through; without first_only
\* every such notice becomes replaced; no other notice is altered, and when
\* the chooser is true for none the sequence is the input's.
C20_ReplacePreservesLengthAndOrder ==
    query.op = "replace" =>
        LET old == query.self.notices
            new == query.ret.notices
            chosen == Chosen(query)
        IN  /\ Len(new) = Len(old)
            /\ query.ret.location = query.self.location
            /\ query.ret.line_number = query.self.line_number
            /\ \A i \in 1..Len(old) :
                   new[i] = IF i \in chosen /\ (~query.first_only \/ i = MinOf(chosen))
                            THEN query.replaced
                            ELSE old[i]
            /\ chosen = {} => new = old

\* a call with first_only on a line where the chooser is true for two notices:
\* the first is substituted and the second passes through, altered by nothing
C20_Witness ==
    /\ query.op = "replace"
    /\ query.first_only
    /\ \E i, j \in Chosen(query) :
           /\ i < j
           /\ i = MinOf(Chosen(query))
           /\ query.ret.notices[i] = query.replaced
           /\ query.self.notices[i] # query.replaced
           /\ query.ret.notices[j] = query.self.notices[j]
           /\ query.self.notices[j] # query.replaced

(***************************************************************************)
(* SpecForCompare: a caller calls ProgramNotice.for_compare once, on a     *)
(* notice whose msg has up to MaxMsgLen characters.                        *)
(***************************************************************************)
MaxMsgLen == 4

MsgChars == {"a", "b", "\n"}

RECURSIVE StringsOfLen(_)
StringsOfLen(k) ==
    IF k = 0 THEN {""}
    ELSE {s \o c : s \in StringsOfLen(k - 1), c \in MsgChars}

ForCompareMsgs == UNION {StringsOfLen(k) : k \in 0..MaxMsgLen}

ForCompareNotices ==
    {ProgramNotice(LocA, 1, col, severity, tag, msg) :
        col \in {None, Some(1)}, severity \in Severities, tag \in Tags,
        msg \in ForCompareMsgs}

ForCompare ==
    /\ query = NoQuery
    /\ \E self \in ForCompareNotices :
           query' = [op |-> "for_compare", self |-> self, ret |-> for_compare(self)]
    /\ UNCHANGED <<fn, last, calls, program, heap, known_files, scenario, history>>

NextForCompare == ForCompare

SpecForCompare == Init /\ [][NextForCompare]_vars

\* the number of newline characters of msg
Newlines(msg) == Cardinality({i \in 1..Len(msg) : SubSeq(msg, i, i) = "\n"})

\* C19: for_compare splits without loss: a notice whose msg has k newlines
\* gives k+1 notices, each with the location, line_number, col, severity and
\* tag of the original and a msg without newline, and their msgs joined by
\* newlines, in the order given, are the original msg.
C19_ForCompareSplitsWithoutLoss ==
    query.op = "for_compare" =>
        LET self == query.self
            ret == query.ret
        IN  /\ Len(ret) = Newlines(self.msg) + 1
            /\ \A i \in 1..Len(ret) :
                   /\ ret[i].location = self.location
                   /\ ret[i].line_number = self.line_number
                   /\ ret[i].col = self.col
                   /\ ret[i].severity = self.severity
                   /\ ret[i].tag = self.tag
                   /\ Newlines(ret[i].msg) = 0
            /\ join_newline([i \in 1..Len(ret) |-> ret[i].msg]) = self.msg

\* a call on a notice whose msg has an empty line between two others
C19_Witness ==
    /\ query.op = "for_compare"
    /\ Len(query.ret) = 3
    /\ query.ret[1].msg # ""
    /\ query.ret[2].msg = ""
    /\ query.ret[3].msg # ""
    /\ query.self.col # None

(***************************************************************************)
(* SpecDiff: a caller diffs two ProgramNotices and compares the result.    *)
(* The FileNotices of the two programs are built with the operations of    *)
(* FileNotices.                                                            *)
(***************************************************************************)
LocS == "/s/b.py"

RootDirs == {"/r", "/r/a"}

DiffError1 == add_error(FileNotices(LocA), IntArg(1), "arg-type", "e1").value

DiffNote == ProgramNotice(LocA, 1, None, "note", None, "x\ny")

\* the files at LocA: empty; one error; the error and then a two-line note;
\* the same note and then the error; errors on two lines; the error with a
\* column; a notice made for line 1 stored under line 2; a line emptied by
\* remove_notices
DiffFilesA ==
    {FileNotices(LocA),
     DiffError1,
     add_notice(DiffError1, 1, DiffNote),
     add_error(add_note(add_note(FileNotices(LocA), IntArg(1), "x").value,
                        IntArg(1), "y").value,
               IntArg(1), "arg-type", "e1").value,
     add_error(DiffError1, IntArg(2), "arg-type", "e2").value,
     add_notice(FileNotices(LocA), 1,
                ProgramNotice(LocA, 1, Some(1), "error", Some("arg-type"), "e1")),
     add_notice(FileNotices(LocA), 2, ProgramNotice(LocA, 1, Some(1), "warning", None, "w")),
     remove_notices(DiffError1, IntArg(1), AnyChooser).value}

DiffFilesS ==
    {add_note(FileNotices(LocS), IntArg(2), "x").value,
     add_error(FileNotices(LocS), IntArg(2), "arg-type", "e1").value}

DiffPrograms ==
    {ProgramNotices(EmptyDict)}
        \cup {ProgramNotices(DictSet(EmptyDict, LocA, a)) : a \in DiffFilesA}
        \cup {ProgramNotices(DictSet(EmptyDict, LocS, b)) : b \in DiffFilesS}
        \cup {ProgramNotices(DictSet(DictSet(EmptyDict, LocA, a), LocS, b)) :
                  a \in DiffFilesA, b \in DiffFilesS}

DiffCompare ==
    /\ query = NoQuery
    /\ \E self \in DiffPrograms, other \in DiffPrograms, root_dir \in RootDirs :
           query' = [op |-> "diff", self |-> self, other |-> other, root_dir |-> root_dir,
                     ret |-> diff(self, root_dir, other),
                     compared |-> compare_notices(diff(self, root_dir, other))]
    /\ UNCHANGED <<fn, last, calls, program, heap, known_files, scenario, history>>

NextDiff == DiffCompare

SpecDiff == Init /\ [][NextDiff]_vars

(***************************************************************************)
(* Claims about ProgramNotices.diff and compare_notices (SpecDiff).        *)
(***************************************************************************)
SeqToSet(seq) == {seq[i] : i \in 1..Len(seq)}

\* the (path, line_number) keys of a DiffNotices
DiffKeys(d) ==
    UNION {{<<path, line_number>> :
               line_number \in DOMAIN d.by_file[path].by_line_number} :
           path \in DOMAIN d.by_file}

\* the (path, line_number) keys under which the notices of a program fall
KeysOf(notices, root_dir) ==
    {<<diff_path(n, root_dir), n.line_number>> : n \in SeqToSet(ProgramNotices_iter(notices))}

\* the for_compare expansion of the notices of a program that fall under a key
ExpansionAt(notices, root_dir, key) ==
    LET at == SelectSeq(ProgramNotices_iter(notices),
                  LAMBDA n : <<diff_path(n, root_dir), n.line_number>> = key)
    IN  concat([i \in 1..Len(at) |-> for_compare(at[i])])

\* C14: diff loses and invents nothing: its (path, line_number) keys are the
\* keys under which a notice of self or of other falls, every path holds a
\* line, and for each key the left bucket is the for_compare expansion of
\* the notices of self at that key and the right bucket that of other (so
\* the empty sequence for a key only the other side has).
C14_DiffLosesAndInventsNothing ==
    query.op = "diff" =>
        LET d == query.ret
        IN  /\ DiffKeys(d) = KeysOf(query.self, query.root_dir)
                                 \cup KeysOf(query.other, query.root_dir)
            /\ \A path \in DOMAIN d.by_file : DOMAIN d.by_file[path].by_line_number # {}
            /\ \A key \in DiffKeys(d) :
                   LET pair == d.by_file[key[1]].by_line_number[key[2]]
                   IN  /\ pair[1] = ExpansionAt(query.self, query.root_dir, key)
                       /\ pair[2] = ExpansionAt(query.other, query.root_dir, key)

\* a diff under /r of two programs: a.py is relative and /s/b.py is not, line
\* 1 of a.py has the two lines of a note on the left, and a key of /s/b.py is
\* on the right only
C14_Witness ==
    /\ query.op = "diff"
    /\ DOMAIN query.ret.by_file = {"a.py", "/s/b.py"}
    /\ \E i \in 1..Len(query.ret.by_file["a.py"].by_line_number[1][1]) :
           query.ret.by_file["a.py"].by_line_number[1][1][i].msg = "y"
    /\ \E line_number \in DOMAIN query.ret.by_file["/s/b.py"].by_line_number :
           LET pair == query.ret.by_file["/s/b.py"].by_line_number[line_number]
           IN  pair[1] = <<>> /\ pair[2] # <<>>

\* C13: diffing a ProgramNotices against itself is clean: every line the
\* diff yields has the same left and right sequence, element by element, and
\* compare_notices on the diff does not raise.
C13_DiffAgainstItselfIsClean ==
    (query.op = "diff" /\ query.self = query.other) =>
        /\ \A path \in DOMAIN query.ret.by_file :
               LET lines == DiffFileNotices_iter(query.ret.by_file[path])
               IN  \A i \in 1..Len(lines) :
                       /\ Len(lines[i].left_notices) = Len(lines[i].right_notices)
                       /\ \A j \in 1..Len(lines[i].left_notices) :
                              lines[i].left_notices[j] = lines[i].right_notices[j]
        /\ query.compared.raised = NoError

\* a program with two files, one line of which holds a two-line note stored
\* before an error, diffed against itself
C13_Witness ==
    /\ query.op = "diff"
    /\ query.self = query.other
    /\ Cardinality(DOMAIN query.ret.by_file) = 2
    /\ \E path \in DOMAIN query.ret.by_file :
           \E line_number \in DOMAIN query.ret.by_file[path].by_line_number :
               LET pair == query.ret.by_file[path].by_line_number[line_number]
               IN  /\ Len(pair[1]) = 3
                   /\ pair[1][1].severity = "note"
                   /\ pair[1][3].severity = "error"
    /\ query.compared.raised = NoError

\* the lines a DiffNotices yields, each with its path
DiffLines(d) ==
    LET files == DiffNotices_iter(d)
    IN  concat([i \in 1..Len(files) |->
            LET lines == DiffFileNotices_iter(files[i].notices)
            IN  [j \in 1..Len(lines) |->
                    [path |-> files[i].path, line_number |-> lines[j].line_number,
                     left_notices |-> lines[j].left_notices,
                     right_notices |-> lines[j].right_notices]]])

\* slot i of a yielded line is discrepant: one side has no notice there, or
\* the right notice does not match the left one
Discrepant(line, i) ==
    \/ i > Len(line.left_notices)
    \/ i > Len(line.right_notices)
    \/ ~matches(line.right_notices[i], line.left_notices[i])

Slots(line) == 1..(IF Len(line.left_notices) >= Len(line.right_notices)
                   THEN Len(line.left_notices) ELSE Len(line.right_notices))

\* b holds the notices of a, in order, and one more
OneExtra(a, b) ==
    \E k \in 1..Len(b) : a = SubSeq(b, 1, k - 1) \o SubSeq(b, k + 1, Len(b))

\* the notice b holds in addition to those of a
ExtraNotices(a, b) ==
    {b[k] : k \in {k \in 1..Len(b) : a = SubSeq(b, 1, k - 1) \o SubSeq(b, k + 1, Len(b))}}

\* the report has a cross entry for the path and the line of the notice
NamesNotice(report, notice, root_dir) ==
    \E i \in 1..Len(report) :
        /\ report[i].kind = "cross"
        /\ report[i].path = diff_path(notice, root_dir)
        /\ report[i].line_number = notice.line_number

\* C15: compare_notices raises if and only if some line the diff yields has a
\* discrepant slot (a pair that does not match, or one side longer than the
\* other); and when one of the two programs holds the notices of the other
\* and one more, it raises with a report that has a cross entry under the
\* path (relative to root_dir when the file is under it) and the line of
\* that notice.
C15_CompareRaisesIffSomeLineDiffers ==
    query.op = "diff" =>
        LET lines == DiffLines(query.ret)
            left == ProgramNotices_iter(query.self)
            right == ProgramNotices_iter(query.other)
        IN  /\ query.compared.raised # NoError <=>
                   \E i \in 1..Len(lines) : \E j \in Slots(lines[i]) : Discrepant(lines[i], j)
            /\ OneExtra(left, right) =>
                   /\ query.compared.raised # NoError
                   /\ \A notice \in ExtraNotices(left, right) :
                          NamesNotice(query.compared.report, notice, query.root_dir)
            /\ OneExtra(right, left) =>
                   /\ query.compared.raised # NoError
                   /\ \A notice \in ExtraNotices(right, left) :
                          NamesNotice(query.compared.report, notice, query.root_dir)

\* the right program holds an error and one note more than the left on line 1
\* of a file under root_dir: the comparison raises, the error is ticked and a
\* cross entry of a.py line 1 wants nothing
C15_Witness ==
    /\ query.op = "diff"
    /\ OneExtra(ProgramNotices_iter(query.self), ProgramNotices_iter(query.other))
    /\ query.compared.raised = "ComparisonMismatch"
    /\ \E i, j \in 1..Len(query.compared.report) :
           /\ query.compared.report[i].kind = "tick"
           /\ query.compared.report[i].path = "a.py"
           /\ query.compared.report[i].line_number = 1
           /\ query.compared.report[j].kind = "cross"
           /\ query.compared.report[j].path = "a.py"
           /\ query.compared.report[j].line_number = 1
           /\ query.compared.report[j].want = None
           /\ query.compared.report[j].got # None

\* C16: compare_notices aggregates: the report it raises has a cross entry
\* (GOT/WANT) for every discrepant slot of every line of every file the diff
\* yields, in the order the diff yields them, and nothing else is crossed.
C16_CompareAggregatesEveryLine ==
    query.op = "diff" =>
        LET lines == DiffLines(query.ret)
            report == query.compared.report
            crosses == SelectSeq(report, LAMBDA entry : entry.kind = "cross")
            expected == concat([i \in 1..Len(lines) |->
                            LET discrepant == {j \in Slots(lines[i]) : Discrepant(lines[i], j)}
                                slots == sorted_keys(discrepant)
                            IN  [k \in 1..Len(slots) |->
                                    [kind |-> "cross", path |-> lines[i].path,
                                     line_number |-> lines[i].line_number,
                                     got |-> slot_of(lines[i].right_notices, slots[k]),
                                     want |-> slot_of(lines[i].left_notices, slots[k])]]])
        IN  crosses = expected

\* a comparison that raises with cross entries for two files, one of them
\* with two crossed lines
C16_Witness ==
    /\ query.op = "diff"
    /\ query.compared.raised = "ComparisonMismatch"
    /\ \E i, j, k \in 1..Len(query.compared.report) :
           /\ i < j
           /\ j < k
           /\ query.compared.report[i].kind = "cross"
           /\ query.compared.report[j].kind = "cross"
           /\ query.compared.report[k].kind = "cross"
           /\ query.compared.report[i].path # query.compared.report[j].path
           /\ query.compared.report[j].path = query.compared.report[k].path
           /\ query.compared.report[j].line_number # query.compared.report[k].line_number

\* everything iterating a DiffNotices yields
DiffIterated(d) ==
    LET files == DiffNotices_iter(d)
    IN  [i \in 1..Len(files) |->
            [path |-> files[i].path, lines |-> DiffFileNotices_iter(files[i].notices)]]

NonDecreasing(notices) ==
    \A i, j \in 1..Len(notices) : i < j => ~str_lt(display(notices[j]), display(notices[i]))

Count(seq, e) == Cardinality({i \in 1..Len(seq) : seq[i] = e})

\* two programs hold the same notices, in whatever order
SameNotices(a, b) ==
    LET na == ProgramNotices_iter(a)
        nb == ProgramNotices_iter(b)
    IN  /\ Len(na) = Len(nb)
        /\ \A n \in SeqToSet(na) : Count(na, n) = Count(nb, n)

\* C18: the order a diff is iterated in depends on content only: files come
\* in ascending path order, the lines of a file in ascending line_number,
\* each left and right sequence in non-decreasing display() order, and a diff
\* of programs that hold the same notices stored in another order iterates
\* identically.
C18_DiffOrderDependsOnContentOnly ==
    query.op = "diff" =>
        LET it == DiffIterated(query.ret)
        IN  /\ \A i, j \in 1..Len(it) : i < j => str_lt(it[i].path, it[j].path)
            /\ \A i \in 1..Len(it) :
                   /\ \A j, k \in 1..Len(it[i].lines) :
                          j < k => it[i].lines[j].line_number < it[i].lines[k].line_number
                   /\ \A j \in 1..Len(it[i].lines) :
                          /\ NonDecreasing(it[i].lines[j].left_notices)
                          /\ NonDecreasing(it[i].lines[j].right_notices)
            /\ \A again \in DiffPrograms :
                   /\ SameNotices(again, query.self) =>
                          DiffIterated(diff(again, query.root_dir, query.other)) = it
                   /\ SameNotices(again, query.other) =>
                          DiffIterated(diff(query.self, query.root_dir, again)) = it

\* a diff of two files, a.py and /s/b.py, that yields /s/b.py first and whose
\* left side of a.py line 1 is stored note first and yielded error first
C18_Witness ==
    /\ query.op = "diff"
    /\ Len(DiffIterated(query.ret)) = 2
    /\ DiffIterated(query.ret)[1].path = "/s/b.py"
    /\ DiffIterated(query.ret)[2].path = "a.py"
    /\ query.ret.by_file["a.py"].by_line_number[1][1] # <<>>
    /\ query.ret.by_file["a.py"].by_line_number[1][1][1].severity = "note"
    /\ DiffIterated(query.ret)[2].lines[1].left_notices[1].severity = "error"
    /\ \E again \in DiffPrograms :
           /\ again # query.self
           /\ SameNotices(again, query.self)

(***************************************************************************)
(* SpecCheck: Expectations.check_results, called once on a RunResult.      *)
(* check_notices belongs to the runner, of which the source declares only  *)
(* the protocol: it returns or raises, as notices_match says.              *)
(***************************************************************************)
RunResult(exit_code, stdout, stderr) ==
    [exit_code |-> exit_code, stdout |-> stdout, stderr |-> stderr]

Expectations(expect_fail, expect_stderr, expect_notices) ==
    [expect_fail |-> expect_fail, expect_stderr |-> expect_stderr,
     expect_notices |-> expect_notices]

\* self.options.runner.check_notices(result=result, expected_notices=...)
check_notices(notices_match) ==
    IF notices_match THEN NoError ELSE "ComparisonMismatch"

\* check_results with the exit code expected from expect_fail alone
check_results_expect_fail_only(self, result, notices_match) ==
    IF check_notices(notices_match) # NoError THEN check_notices(notices_match)
    ELSE IF result.stderr # self.expect_stderr THEN "AssertionError"
    ELSE IF self.expect_fail
         THEN (IF result.exit_code # 0 THEN NoError ELSE "AssertionError")
         ELSE (IF result.exit_code = 0 THEN NoError ELSE "AssertionError")

\* what check_results raises, NoError when it returns
check_results(self, result, notices_match) ==
    IF check_notices(notices_match) # NoError THEN check_notices(notices_match)
    ELSE IF result.stderr # self.expect_stderr THEN "AssertionError"
    ELSE IF \/ self.expect_fail
            \/ \E i \in 1..Len(ProgramNotices_iter(self.expect_notices)) :
                   ProgramNotices_iter(self.expect_notices)[i].severity = "error"
         THEN (IF result.exit_code # 0 THEN NoError ELSE "AssertionError")
         ELSE (IF result.exit_code = 0 THEN NoError ELSE "AssertionError")

ExitCodes == {0, 1, 2}

Stderrs == {"", "boom"}

CheckResults ==
    /\ query = NoQuery
    /\ \E expect_notices \in DiffPrograms, expect_fail \in BOOLEAN,
          expect_stderr \in Stderrs, exit_code \in ExitCodes, stderr \in Stderrs,
          notices_match \in BOOLEAN :
           LET self == Expectations(expect_fail, expect_stderr, expect_notices)
               result == RunResult(exit_code, "", stderr)
           IN  query' = [op |-> "check_results", self |-> self, result |-> result,
                         notices_match |-> notices_match,
                         raised |-> check_results(self, result, notices_match)]
    /\ UNCHANGED <<fn, last, calls, program, heap, known_files, scenario, history>>

NextCheck == CheckResults

SpecCheck == Init /\ [][NextCheck]_vars

\* some notice stored in the program has severity "error"
HoldsError(notices) ==
    \E location \in DOMAIN notices.notices :
        \E line_number \in DOMAIN notices.notices[location].by_line_number :
            \E i \in 1..Len(notices.notices[location].by_line_number[line_number].notices) :
                notices.notices[location].by_line_number[line_number].notices[i].severity
                    = "error"

\* C17: with matching notices and matching stderr, check_results passes if
\* and only if (exit_code != 0) = (expect_fail or some expected notice has
\* severity "error").
C17_ExitCodePolicy ==
    (/\ query.op = "check_results"
     /\ query.notices_match
     /\ query.result.stderr = query.self.expect_stderr)
    => (query.raised = NoError <=>
           ((query.result.exit_code # 0) <=>
               (query.self.expect_fail \/ HoldsError(query.self.expect_notices))))

\* the check passes on a non-zero exit code with expect_fail False, because
\* an expected notice is an error
C17_Witness ==
    /\ query.op = "check_results"
    /\ query.notices_match
    /\ query.result.stderr = query.self.expect_stderr
    /\ ~query.self.expect_fail
    /\ HoldsError(query.self.expect_notices)
    /\ query.result.exit_code # 0
    /\ query.raised = NoError

(***************************************************************************)
(* SpecHeap: the operations of LineNotices and FileNotices on objects.  A  *)
(* caller calls an operation on any object made so far, the newest or one  *)
(* it kept from earlier, and at most MaxObjects objects are made.          *)
(***************************************************************************)
MaxObjects == 7

FileRefs(h) == {ref \in 1..Len(h) : h[ref].cls = "FileNotices"}

LineRefs(h) == {ref \in 1..Len(h) : h[ref].cls = "LineNotices"}

HeapNameOrLines == {IntArg(1), StrArg("a")}

\* the heap after a call that gave r (the objects made before a raise stay)
HeapStep(r) ==
    /\ Len(r.heap) <= MaxObjects
    /\ heap' = r.heap
    /\ UNCHANGED <<fn, last, calls, program, query, known_files, scenario, history>>

HeapLineAdd ==
    \E self \in LineRefs(heap) :
        HeapStep(heap_LineNotices_add(heap, self,
            ProgramNotice(heap[self].location, heap[self].line_number, None, "error",
                          Some("arg-type"), "e1")))

HeapLineReplace ==
    \E self \in LineRefs(heap), first_only \in BOOLEAN :
        HeapStep(heap_LineNotices_replace(heap, self, SeverityChooser("error"),
            ProgramNotice(heap[self].location, heap[self].line_number, None, "error",
                          Some("arg-type"), "e2"), first_only))

HeapLineRemove ==
    \E self \in LineRefs(heap) :
        HeapStep(heap_LineNotices_remove(heap, self, AnyChooser))

HeapSetLineNotices ==
    \E self \in FileRefs(heap), notices \in LineRefs(heap) :
        HeapStep(heap_set_line_notices(heap, self, 1, notices))

HeapAddNotice ==
    \E self \in FileRefs(heap), notice \in InputNotices :
        HeapStep(heap_add_notice(heap, self, 1, notice))

HeapSetName ==
    \E self \in FileRefs(heap) : HeapStep(heap_set_name(heap, self, "a", 2))

HeapAddError ==
    \E self \in FileRefs(heap), name_or_line \in HeapNameOrLines :
        HeapStep(heap_add_error(heap, self, name_or_line, "arg-type", "e1"))

HeapAddReveal ==
    \E self \in FileRefs(heap), name_or_line \in HeapNameOrLines :
        HeapStep(heap_add_note(heap, self, name_or_line, revealed_msg("int")))

HeapAddNote ==
    \E self \in FileRefs(heap), name_or_line \in HeapNameOrLines :
        HeapStep(heap_add_note(heap, self, name_or_line, "x"))

HeapChangeError ==
    \E self \in FileRefs(heap), name_or_line \in HeapNameOrLines, modify \in ErrorModifies :
        HeapStep(heap_change_severity(heap, self, name_or_line, "error", modify))

HeapChangeNote ==
    \E self \in FileRefs(heap), name_or_line \in HeapNameOrLines, modify \in NoteModifies :
        HeapStep(heap_change_severity(heap, self, name_or_line, "note", modify))

HeapRemoveNotices ==
    \E self \in FileRefs(heap), name_or_line \in HeapNameOrLines :
        HeapStep(heap_remove_notices(heap, self, name_or_line, AnyChooser))

NextHeap ==
    \/ HeapLineAdd
    \/ HeapLineReplace
    \/ HeapLineRemove
    \/ HeapSetLineNotices
    \/ HeapAddNotice
    \/ HeapSetName
    \/ HeapAddError
    \/ HeapAddReveal
    \/ HeapAddNote
    \/ HeapChangeError
    \/ HeapChangeNote
    \/ HeapRemoveNotices

SpecHeap == Init /\ [][NextHeap]_vars

\* C12: the mutators are copy-on-write: whatever operation is called, on
\* whatever LineNotices or FileNotices, and whether it returns or raises,
\* every object that existed before the call has, after it, the notice
\* sequence, the line map and the name table it had before.
C12_MutatorsAreCopyOnWrite ==
    [][\A ref \in 1..Len(heap) : Len(heap') >= ref /\ heap'[ref] = heap[ref]]_vars

\* a FileNotices kept from earlier holds one notice on line 1 while a later
\* FileNotices, made by adding to that line, holds it and one more, in
\* another LineNotices object
C12_Witness ==
    \E v, w \in FileRefs(heap) :
        /\ v < w
        /\ 1 \in DOMAIN heap[v].by_line_number
        /\ 1 \in DOMAIN heap[w].by_line_number
        /\ heap[v].by_line_number[1] # heap[w].by_line_number[1]
        /\ Len(heap[heap[v].by_line_number[1]].notices) = 1
        /\ Len(heap[heap[w].by_line_number[1]].notices) = 2
        /\ heap[heap[w].by_line_number[1]].notices[1] = heap[heap[v].by_line_number[1]].notices[1]

\* the value of the FileNotices object at ref: its lines with their notices
Deref(h, ref) ==
    [location |-> h[ref].location,
     by_line_number |->
         [line_number \in DOMAIN h[ref].by_line_number |->
             [location |-> h[h[ref].by_line_number[line_number]].location,
              line_number |-> h[h[ref].by_line_number[line_number]].line_number,
              notices |-> h[h[ref].by_line_number[line_number]].notices]],
     name_to_line_number |-> h[ref].name_to_line_number]

\* r, the outcome of an operation on objects, is the outcome v of the same
\* operation on values
SameOutcome(r, v) ==
    /\ r.raised = v.raised
    /\ r.raised = NoError => Deref(r.heap, r.ret) = v.value

\* the operations on objects return the objects whose values the operations
\* on values return, and raise when they raise
HeapAgreesWithValues ==
    \A self \in FileRefs(heap), name_or_line \in HeapNameOrLines :
        /\ SameOutcome(heap_add_error(heap, self, name_or_line, "arg-type", "e1"),
                       add_error(Deref(heap, self), name_or_line, "arg-type", "e1"))
        /\ SameOutcome(heap_add_note(heap, self, name_or_line, "x"),
                       add_note(Deref(heap, self), name_or_line, "x"))
        /\ SameOutcome(heap_add_note(heap, self, name_or_line, revealed_msg("int")),
                       add_reveal(Deref(heap, self), name_or_line, "int"))
        /\ SameOutcome(heap_remove_notices(heap, self, name_or_line, AnyChooser),
                       remove_notices(Deref(heap, self), name_or_line, AnyChooser))
        /\ \A modify \in ErrorModifies :
               SameOutcome(heap_change_severity(heap, self, name_or_line, "error", modify),
                           change_error(Deref(heap, self), name_or_line, modify))
        /\ \A modify \in NoteModifies :
               SameOutcome(heap_change_severity(heap, self, name_or_line, "note", modify),
                           change_note(Deref(heap, self), name_or_line, modify))
        /\ \A notice \in InputNotices :
               SameOutcome(heap_add_notice(heap, self, 1, notice),
                           Return(add_notice(Deref(heap, self), 1, notice)))
        /\ SameOutcome(heap_set_name(heap, self, "a", 2),
                       Return(set_name(Deref(heap, self), "a", 2)))

(***************************************************************************)
(* SpecNames: a caller names lines with two names, re-points the names and *)
(* adds errors and notes through the names.  query                         *)
(* holds the last call with the FileNotices before and after it, and calls *)
(* logs, per line, the texts added through a name while the name pointed   *)
(* to that line.                                                           *)
(***************************************************************************)
\* the calls of this specification are addressed by name
NamesArgs == {StrArg(name) : name \in Names}

NamesQuery(op, name_or_line, before, r) ==
    [op |-> op, name_or_line |-> name_or_line, before |-> before, raised |-> r.raised,
     after |-> IF r.raised = NoError THEN r.value ELSE before]

\* a text added through a name is logged at the line the name points to
LoggedByName(name_or_line, text) ==
    IF ~isinstance_int(name_or_line) /\ Resolvable(fn, name_or_line)
    THEN /\ Len(calls[ResolvedLine(fn, name_or_line)]) < MaxMsgLines
         /\ calls' = [calls EXCEPT ![ResolvedLine(fn, name_or_line)] = Append(@, text)]
    ELSE calls' = calls

NamesSetName ==
    /\ \E name \in Names, line_number \in Lines :
           /\ Step("set_name", Return(set_name(fn, name, line_number)))
           /\ query' = NamesQuery("set_name", StrArg(name), fn,
                                  Return(set_name(fn, name, line_number)))
    /\ UNCHANGED <<calls, program, heap, known_files, scenario, history>>

NamesAddError ==
    /\ \E name_or_line \in NamesArgs, error_type \in ErrorTypes, error \in Errors :
           /\ AddErrorOp(name_or_line, error_type, error)
           /\ LoggedByName(name_or_line, error)
           /\ query' = NamesQuery("add_error", name_or_line, fn,
                                  add_error(fn, name_or_line, error_type, error))
    /\ UNCHANGED <<program, heap, known_files, scenario, history>>

NamesAddNote ==
    /\ \E name_or_line \in NamesArgs, note \in Notes :
           /\ AddNoteOp(name_or_line, note)
           /\ IF add_note(fn, name_or_line, note).raised = NoError
              THEN LoggedByName(name_or_line, note)
              ELSE calls' = calls
           /\ query' = NamesQuery("add_note", name_or_line, fn,
                                  add_note(fn, name_or_line, note))
    /\ UNCHANGED <<program, heap, known_files, scenario, history>>

NextNames ==
    \/ NamesSetName
    \/ NamesAddError
    \/ NamesAddNote

SpecNames == Init /\ [][NextNames]_vars

\* the texts the notices of a line hold, one per line of message
RECURSIVE TextsOf(_)
TextsOf(notices) ==
    IF notices = <<>> THEN {}
    ELSE SeqToSet(split_newline(Head(notices).msg)) \cup TextsOf(Tail(notices))

TextsAt(self, line_number) ==
    IF line_number \in DOMAIN self.by_line_number
    THEN TextsOf(self.by_line_number[line_number].notices)
    ELSE {}

\* a call changed nothing of by_line_number outside of line_number
OnlyLineChanged(before, after, line_number) ==
    /\ DOMAIN after.by_line_number \subseteq DOMAIN before.by_line_number \cup {line_number}
    /\ \A other \in DOMAIN before.by_line_number \ {line_number} :
           /\ other \in DOMAIN after.by_line_number
           /\ after.by_line_number[other] = before.by_line_number[other]

\* a call changed what line_number holds
LineChanged(before, after, line_number) ==
    /\ line_number \in DOMAIN after.by_line_number
    /\ line_number \in DOMAIN before.by_line_number =>
           after.by_line_number[line_number] # before.by_line_number[line_number]

\* C21: names and notices are decoupled.  set_name leaves by_line_number as
\* it was; every text added through a name is still held on the line the
\* name pointed to when it was added, wherever the name points now; a call
\* through a name changes only the line the name points to at the call and
\* leaves the names alone; and all the names of one line resolve to the
\* LineNotices the line number resolves to.
C21_NamesAndNoticesAreDecoupled ==
    /\ query.op = "set_name" => query.after.by_line_number = query.before.by_line_number
    /\ \A line_number \in Lines :
           SeqToSet(calls[line_number]) \subseteq TextsAt(fn, line_number)
    /\ (query.op \in {"add_error", "add_note"} /\ query.raised = NoError) =>
           /\ OnlyLineChanged(query.before, query.after,
                              ResolvedLine(query.before, query.name_or_line))
           /\ query.after.name_to_line_number = query.before.name_to_line_number
           /\ LineChanged(query.before, query.after,
                          ResolvedLine(query.before, query.name_or_line))
    /\ \A name \in DOMAIN fn.name_to_line_number, severity \in OptSeverities :
           LET by_name == find_for_name_or_line(fn, StrArg(name), severity, FALSE)
               by_line == find_for_name_or_line(fn, IntArg(fn.name_to_line_number[name]),
                                                severity, FALSE)
           IN  /\ by_name.raised = NoError
               /\ by_name = by_line

\* name "a" was re-pointed from line 1 to line 2 by the last but one call,
\* the texts added through it before stay on line 1, the last call added
\* through it to line 2, and "b" names line 2 as well
C21_Witness ==
    /\ query.op = "add_error" /\ query.name_or_line = StrArg("a") /\ query.raised = NoError
    /\ DOMAIN fn.name_to_line_number = {"a", "b"}
    /\ fn.name_to_line_number["a"] = 2 /\ fn.name_to_line_number["b"] = 2
    /\ calls[1] = <<"e1">> /\ calls[2] = <<"e2">>
    /\ TextsAt(fn, 1) = {"e1"} /\ TextsAt(fn, 2) = {"e2"}

(***************************************************************************)
(* SpecExtra: a caller builds the expected notices of line 1 of a file,    *)
(* adds one notice to them to make the actual notices, diffs expected      *)
(* against actual and compares the result.                                 *)
(***************************************************************************)
\* the notices of line 1: two errors, an error with a column, a note
ExtraLineNotices ==
    {ProgramNotice(LocA, 1, None, "error", Some("arg-type"), "e1"),
     ProgramNotice(LocA, 1, None, "error", Some("arg-type"), "e2"),
     ProgramNotice(LocA, 1, Some(1), "error", Some("arg-type"), "e1"),
     ProgramNotice(LocA, 1, None, "note", None, "x")}

\* the expected lines: up to MaxNotices notices in any order
ExtraExpected == UNION {[1..n -> ExtraLineNotices] : n \in 0..MaxNotices}

\* the FileNotices at LocA with the notices added to line 1 in order
RECURSIVE file_of(_, _)
file_of(self, notices) ==
    IF notices = <<>> THEN self
    ELSE file_of(add_notice(self, 1, Head(notices)), Tail(notices))

ExtraCompare ==
    /\ query = NoQuery
    /\ \E expected \in ExtraExpected, extra \in ExtraLineNotices, root_dir \in RootDirs :
           LET left == ProgramNotices(DictSet(EmptyDict, LocA,
                           file_of(FileNotices(LocA), expected)))
               right == ProgramNotices(DictSet(EmptyDict, LocA,
                            add_notice(file_of(FileNotices(LocA), expected), 1, extra)))
           IN  query' = [op |-> "extra", expected |-> expected, extra |-> extra,
                         root_dir |-> root_dir,
                         ret |-> diff(left, root_dir, right),
                         compared |-> compare_notices(diff(left, root_dir, right))]
    /\ UNCHANGED <<fn, last, calls, program, heap, known_files, scenario, history>>

NextExtra == ExtraCompare

SpecExtra == Init /\ [][NextExtra]_vars

\* the entries of the report for the lines, without the file headers
LineEntries(report) == SelectSeq(report, LAMBDA entry : entry.kind # "file")

Ticks(report) == SelectSeq(report, LAMBDA entry : entry.kind = "tick")

Crosses(report) == SelectSeq(report, LAMBDA entry : entry.kind = "cross")

\* the line shows every expected notice as a tick pair and one GOT/WANT slot
\* whose GOT is the additional notice and whose WANT is <NONE>
IsolatesExtra(q) ==
    /\ q.compared.raised = "ComparisonMismatch"
    /\ Len(LineEntries(q.compared.report)) = Len(q.expected) + 1
    /\ Len(Ticks(q.compared.report)) = Len(q.expected)
    /\ \A i \in 1..Len(sorted(q.expected)) :
           \E j \in 1..Len(q.compared.report) :
               /\ q.compared.report[j].kind = "tick"
               /\ q.compared.report[j].want = Some(sorted(q.expected)[i])
               /\ Count(Ticks(q.compared.report), q.compared.report[j])
                      = Count(q.expected, sorted(q.expected)[i])
    /\ Len(Crosses(q.compared.report)) = 1
    /\ Crosses(q.compared.report)[1].got = Some(q.extra)
    /\ Crosses(q.compared.report)[1].want = None

ExtraSortsLast(q) ==
    \A i \in 1..Len(q.expected) :
        \/ ProgramNotice_lt(q.expected[i], q.extra)
        \/ q.expected[i] = q.extra

C22_WitnessBetween ==
    /\ query.op = "extra"
    /\ Len(query.expected) = 2
    /\ ProgramNotice_lt(query.expected[1], query.extra)
    /\ ProgramNotice_lt(query.extra, query.expected[2])
    /\ Len(Crosses(query.compared.report)) = 2

(***************************************************************************)
(* builder.py: ScenarioFile and ScenarioBuilder.                           *)
(*                                                                         *)
(* The content of a file is the sequence of its lines; a line is "" or the *)
(* text of the error the type checker is expected to report on it.  A      *)
(* parser, an instruction given to expect() and an action given to         *)
(* run_and_check_after() are callables, modelled as records that           *)
(* parser_call, instruction_call and action_call interpret.                *)
(***************************************************************************)
\* root_dir / path
path_join(root_dir, path) == root_dir \o "/" \o path

ScenarioFile(path, root_dir, file_parser) ==
    [path |-> path, root_dir |-> root_dir, file_parser |-> file_parser,
     overrides |-> <<>>, file_parser_override |-> None]

\* the parser that reads the expected errors out of the lines of the content
CommentsParser == [kind |-> "comments"]

\* a parser that finds no notice in any content
BlankParser == [kind |-> "blank"]

RECURSIVE parse_lines(_, _, _)
parse_lines(content, i, into) ==
    IF i > Len(content) THEN into
    ELSE parse_lines(content, i + 1,
             IF content[i] = "" THEN into
             ELSE add_error(into, IntArg(i), "arg-type", content[i]).value)

\* parser(content, into=into): the content to write and the notices found
parser_call(parser, content, into) ==
    IF parser.kind = "comments"
    THEN [replacement |-> content, file_notices |-> parse_lines(content, 1, into)]
    ELSE [replacement |-> content, file_notices |-> into]

\* into.clear(clear_names=True): the file notices of the location with no
\* notices, and with no names when clear_names
clear(self, clear_names) ==
    [self EXCEPT !.by_line_number = EmptyDict,
                 !.name_to_line_number = IF clear_names THEN EmptyDict ELSE @]

\* the instructions given to expect()
AddErrorInstruction(line_number, error) ==
    [kind |-> "add_error", line_number |-> line_number, error |-> error]

RemoveNoticesInstruction(line_number) ==
    [kind |-> "remove_notices", line_number |-> line_number, error |-> ""]

NoneInstruction == [kind |-> "none", line_number |-> 0, error |-> ""]

\* instruction(file_notices): the changed FileNotices, or None
instruction_call(instruction, file_notices) ==
    CASE instruction.kind = "add_error" ->
             Some(add_error(file_notices, IntArg(instruction.line_number),
                            "arg-type", instruction.error).value)
      [] instruction.kind = "remove_notices" ->
             Some(remove_notices(file_notices, IntArg(instruction.line_number),
                                 AnyChooser).value)
      [] OTHER -> None

\* the parser a ScenarioFile uses
parser_of(self) ==
    IF self.file_parser_override # None THEN self.file_parser_override[1]
    ELSE self.file_parser

\* ScenarioFile.set: the files after file_modification(path=..., content=...)
ScenarioFile_set(self, files, content) ==
    LET location == path_join(self.root_dir, self.path)
    IN  IF content = None
        THEN [l \in DOMAIN files \ {location} |-> files[l]]
        ELSE DictSet(files, location,
                 parser_call(parser_of(self), content[1], FileNotices(location)).replacement)

\* ScenarioFile.expect as it would be if the instructions given replaced the
\* stored ones
expect_replacing(self, instructions) ==
    [self EXCEPT !.overrides = instructions]

\* ScenarioFile.expect: for instruction in instructions: _overrides.append
expect(self, instructions) ==
    [self EXCEPT !.overrides = @ \o instructions]

override_file_parser(self, parser) ==
    [self EXCEPT !.file_parser_override = parser]

\* the loop of ScenarioFile.notices over _overrides, as it would be if an
\* instruction that returns None were skipped
RECURSIVE apply_overrides_skipping_none(_, _, _)
apply_overrides_skipping_none(overrides, file_notices, into) ==
    IF overrides = <<>> THEN file_notices
    ELSE LET changed == instruction_call(Head(overrides), file_notices)
         IN  apply_overrides_skipping_none(Tail(overrides),
                 IF changed = None THEN file_notices ELSE changed[1], into)

\* for instruction in self._overrides: ...
RECURSIVE apply_overrides(_, _, _)
apply_overrides(overrides, file_notices, into) ==
    IF overrides = <<>> THEN file_notices
    ELSE LET changed == instruction_call(Head(overrides), file_notices)
         IN  apply_overrides(Tail(overrides),
                 IF changed = None THEN clear(into, TRUE) ELSE changed[1], into)

\* ScenarioFile.notices(into=into): None, or the file notices expected
ScenarioFile_notices(self, files, into) ==
    LET location == path_join(self.root_dir, self.path)
    IN  IF location \notin DOMAIN files THEN Raise("FileNotFoundError")
        ELSE LET parsed == parser_call(parser_of(self), files[location], into)
                 file_notices == apply_overrides(self.overrides, parsed.file_notices, into)
             IN  IF parsed.replacement # files[location] THEN Raise("AssertionError")
                 ELSE IF ~FileNotices_has_notices(file_notices) THEN Return(None)
                 ELSE Return(Some(file_notices))

\* ScenarioBuilder.on: _known_files after on(path)
on(known, scn, path) ==
    IF path \notin DOMAIN known
    THEN DictSet(known, path, ScenarioFile(path, scn.root_dir, CommentsParser))
    ELSE known

expect_failure(scn) == [scn EXCEPT !.expects.failure = TRUE]

\* expect_success as it would be if it left the flag alone
expect_success_forgotten(scn) == scn

expect_success(scn) == [scn EXCEPT !.expects.failure = FALSE]

\* program_notices.set_files(files): the files that are None are left out
set_files(self, files) ==
    LET kept == {l \in DOMAIN files : files[l] # None}
        gone == {l \in DOMAIN files : files[l] = None}
    IN  ProgramNotices([l \in (DOMAIN self.notices \ gone) \cup kept |->
                           IF l \in kept THEN files[l][1] ELSE self.notices[l]])

\* ScenarioBuilder.make_expectations: the Expectations, or what a
\* ScenarioFile.notices raised
make_expectations(known, scn) ==
    LET root_dir == scn.root_dir
        program_notices == ProgramNotices(EmptyDict)
        made == [path \in DOMAIN known |->
                    ScenarioFile_notices(known[path], scn.files,
                                         FileNotices(path_join(root_dir, path)))]
        locations == {path_join(root_dir, path) : path \in DOMAIN known}
        path_of(location) == CHOOSE path \in DOMAIN known :
                                 path_join(root_dir, path) = location
    IN  IF \E path \in DOMAIN known : made[path].raised # NoError
        THEN Raise(made[CHOOSE path \in DOMAIN known : made[path].raised # NoError].raised)
        ELSE Return(Expectations(scn.expects.failure, "",
                        set_files(program_notices,
                                  [l \in locations |-> made[path_of(l)].value])))

\* the actions given to run_and_check_after()
NoAction == [kind |-> "none"]

ExpectFailureAction == [kind |-> "expect_failure"]

ExpectSuccessAction == [kind |-> "expect_success"]

\* action(): the scenario after the action
action_call(action, scn) ==
    CASE action.kind = "expect_failure" -> expect_failure(scn)
      [] action.kind = "expect_success" -> expect_success(scn)
      [] OTHER -> scn

\* setup_expectations of run_and_check: the scenario after
\* _change_expectations(), when there is one; what it returns makes the
\* expectations from the builder as it then is
setup_expectations(scn, change_expectations) ==
    IF change_expectations = None THEN scn
    ELSE action_call(change_expectations[1], scn)

\* scenario_runner.run_and_check(setup_expectations): the runner calls
\* setup_expectations(options=options), runs the type checker and then calls
\* what setup_expectations returned to make the expectations it checks
runner_run_and_check(known, scn, change_expectations) ==
    LET after_setup == setup_expectations(scn, change_expectations)
    IN  [scenario |-> after_setup, made |-> make_expectations(known, after_setup)]

\* ScenarioBuilder.run_and_check(_change_expectations=...)
run_and_check(known, scn, change_expectations) ==
    runner_run_and_check(known, scn, change_expectations)

\* ScenarioBuilder.run_and_check_after(action)
run_and_check_after(known, scn, action) == run_and_check(known, scn, Some(action))

(***************************************************************************)
(* SpecScenarioFile: a test writes files through the builder, registers    *)
(* instructions on them with on(path).expect(...) and makes the            *)
(* expectations of a run.  history.registered logs, per path, the          *)
(* instructions given to expect() in call order.                           *)
(***************************************************************************)
MaxOverrides == 2

Paths == {"a.py", "b.py"}

Contents == {<<"e1">>}

Instructions ==
    {AddErrorInstruction(1, "e2"), RemoveNoticesInstruction(1), NoneInstruction}

InstructionLists == UNION {[1..n -> Instructions] : n \in 1..MaxOverrides}

RegisteredAt(path) ==
    IF path \in DOMAIN history.registered THEN history.registered[path] ELSE <<>>

\* build.on(path).set(content)
FileSet ==
    /\ \E path \in Paths, content \in {None} \cup {Some(c) : c \in Contents} :
           /\ known_files' = on(known_files, scenario, path)
           /\ scenario' = [scenario EXCEPT !.files =
                              ScenarioFile_set(known_files'[path], @, content)]
    /\ UNCHANGED <<fn, last, calls, program, query, heap, history>>

\* build.on(path).expect(*instructions)
FileExpect ==
    /\ \E path \in Paths, instructions \in InstructionLists :
           /\ Len(RegisteredAt(path)) + Len(instructions) <= MaxOverrides
           /\ known_files' = DictSet(on(known_files, scenario, path), path,
                                 expect(on(known_files, scenario, path)[path], instructions))
           /\ history' = [history EXCEPT !.registered =
                             DictSet(@, path, RegisteredAt(path) \o instructions)]
    /\ UNCHANGED <<fn, last, calls, program, query, heap, scenario>>

\* build.run_and_check(): the expectations of the run, or what making them
\* raised
FileRun ==
    /\ query' = [op |-> "run_and_check",
                 made |-> run_and_check(known_files, scenario, None).made]
    /\ scenario' = run_and_check(known_files, scenario, None).scenario
    /\ UNCHANGED <<fn, last, calls, program, heap, known_files, history>>

NextScenarioFile ==
    \/ FileSet
    \/ FileExpect
    \/ FileRun

SpecScenarioFile == Init /\ [][NextScenarioFile]_vars

\* what the registered instructions make of file notices, one after the
\* other in registration order; an instruction that returns None leaves a
\* cleared into to the instructions after it
RECURSIVE InOrder(_, _, _)
InOrder(instructions, file_notices, into) ==
    IF instructions = <<>> THEN file_notices
    ELSE InOrder(Tail(instructions),
             IF Head(instructions).kind = "none"
             THEN [location |-> into.location, by_line_number |-> EmptyDict,
                   name_to_line_number |-> EmptyDict]
             ELSE instruction_call(Head(instructions), file_notices)[1],
             into)

\* the final file notices of a run for a known path whose file exists
FinalNotices(path) ==
    LET location == path_join(scenario.root_dir, path)
        into == FileNotices(location)
    IN  InOrder(RegisteredAt(path),
                parser_call(parser_of(known_files[path]), scenario.files[location], into)
                    .file_notices,
                into)

\* notices() of a known path, called now
NoticesNow(path) ==
    ScenarioFile_notices(known_files[path], scenario.files,
                         FileNotices(path_join(scenario.root_dir, path)))

Exists(path) == path_join(scenario.root_dir, path) \in DOMAIN scenario.files

\* C23: the instructions given to expect() on a file are cumulative and
\* ordered: in every state, the instructions a known file holds are all the
\* instructions registered on its path, in registration order; notices()
\* returns what they make, in that order, of the freshly parsed notices of
\* the file; and notices() returns None exactly when these final file
\* notices hold no notice.
C23_InstructionsAreCumulativeAndOrdered ==
    /\ \A path \in Paths :
           RegisteredAt(path) # <<>> =>
               /\ path \in DOMAIN known_files
               /\ known_files[path].overrides = RegisteredAt(path)
    /\ \A path \in DOMAIN known_files :
           Exists(path) =>
               /\ NoticesNow(path).raised = NoError
               /\ NoticesNow(path).value # None =>
                      NoticesNow(path).value[1] = FinalNotices(path)
               /\ NoticesNow(path).value = None <=>
                      FileNotices_iter(FinalNotices(path)) = <<>>

\* the same, with None returned exactly when has_notices is false of the
\* final file notices
C23_InstructionsAreCumulativeUpToHasNotices ==
    /\ \A path \in Paths :
           RegisteredAt(path) # <<>> =>
               /\ path \in DOMAIN known_files
               /\ known_files[path].overrides = RegisteredAt(path)
    /\ \A path \in DOMAIN known_files :
           Exists(path) =>
               /\ NoticesNow(path).raised = NoError
               /\ NoticesNow(path).value # None =>
                      NoticesNow(path).value[1] = FinalNotices(path)
               /\ NoticesNow(path).value = None <=>
                      ~FileNotices_has_notices(FinalNotices(path))

\* a run made the expectations of a.py, whose content has an error on line
\* 1, after an instruction that returns None and then one that adds an
\* error were registered on it: only the added error is expected
C23_WitnessOrdered ==
    /\ query.op = "run_and_check"
    /\ query.made.raised = NoError
    /\ RegisteredAt("a.py") = <<NoneInstruction, AddErrorInstruction(1, "e2")>>
    /\ Exists("a.py")
    /\ scenario.files[path_join(RootDir, "a.py")] = <<"e1">>
    /\ LET all == ProgramNotices_iter(query.made.value.expect_notices)
       IN  Len(all) = 1 /\ all[1].msg = "e2"

(***************************************************************************)
(* SpecExpects: a test calls expect_failure() and expect_success() on the  *)
(* builder between runs and inside the actions of run_and_check_after().   *)
(* history.events logs the calls in the order the test makes them: each    *)
(* expect_failure / expect_success with the flag it asks for, each run     *)
(* with the expect_fail of the Expectations made for it.                   *)
(***************************************************************************)
MaxEvents == 5

FlagEvent(op, flag) == [op |-> op, expect_fail |-> flag]

RunEvent(made) == [op |-> "run", expect_fail |-> made.value.expect_fail]

Logged_events(events) ==
    /\ Len(history.events) + Len(events) <= MaxEvents
    /\ history' = [history EXCEPT !.events = @ \o events]

\* build.expect_failure()
BuilderExpectFailure ==
    /\ scenario' = expect_failure(scenario)
    /\ Logged_events(<<FlagEvent("expect_failure", TRUE)>>)
    /\ UNCHANGED <<fn, last, calls, program, query, heap, known_files>>

\* build.expect_success()
BuilderExpectSuccess ==
    /\ scenario' = expect_success(scenario)
    /\ Logged_events(<<FlagEvent("expect_success", FALSE)>>)
    /\ UNCHANGED <<fn, last, calls, program, query, heap, known_files>>

\* build.run_and_check()
BuilderRunAndCheck ==
    /\ run_and_check(known_files, scenario, None).made.raised = NoError
    /\ scenario' = run_and_check(known_files, scenario, None).scenario
    /\ query' = [op |-> "run_and_check",
                 made |-> run_and_check(known_files, scenario, None).made]
    /\ Logged_events(<<RunEvent(run_and_check(known_files, scenario, None).made)>>)
    /\ UNCHANGED <<fn, last, calls, program, heap, known_files>>

\* the calls an action makes, as the test makes them
ActionEvents(action) ==
    CASE action.kind = "expect_failure" -> <<FlagEvent("expect_failure", TRUE)>>
      [] action.kind = "expect_success" -> <<FlagEvent("expect_success", FALSE)>>
      [] OTHER -> <<>>

\* build.run_and_check_after(action)
BuilderRunAndCheckAfter ==
    /\ \E action \in {NoAction, ExpectFailureAction, ExpectSuccessAction} :
           /\ run_and_check_after(known_files, scenario, action).made.raised = NoError
           /\ scenario' = run_and_check_after(known_files, scenario, action).scenario
           /\ query' = [op |-> "run_and_check_after",
                        made |-> run_and_check_after(known_files, scenario, action).made]
           /\ Logged_events(ActionEvents(action)
                  \o <<RunEvent(run_and_check_after(known_files, scenario, action).made)>>)
    /\ UNCHANGED <<fn, last, calls, program, heap, known_files>>

NextExpects ==
    \/ BuilderExpectFailure
    \/ BuilderExpectSuccess
    \/ BuilderRunAndCheck
    \/ BuilderRunAndCheckAfter

SpecExpects == Init /\ [][NextExpects]_vars

\* the flag asked for by the most recent expect_failure / expect_success
\* among the first n events, False if there is none
RECURSIVE FlagAfter(_, _)
FlagAfter(events, n) ==
    IF n = 0 THEN FALSE
    ELSE IF events[n].op # "run" THEN events[n].expect_fail
    ELSE FlagAfter(events, n - 1)

\* the last run among the first n events
RECURSIVE LastRun(_, _)
LastRun(events, n) ==
    IF events[n].op = "run" \/ n = 1 THEN events[n] ELSE LastRun(events, n - 1)

====
